---- MODULE Spec2Model ----
(***************************************************************************)
(* Model of the MedCAT2 concept database (medcat2/cdb/cdb.py) and of the   *)
(* dictionary based name matcher (medcat2/components/ner/dict_based_ner.py)*)
(* that is built from it.                                                  *)
(*                                                                         *)
(* A name is a sequence of characters; the character "~" is the separator  *)
(* config.general.separator that joins the tokens of a multi-token name.   *)
(* A python dict is a function whose DOMAIN is the set of its keys.        *)
(***************************************************************************)
EXTENDS Integers, Sequences, FiniteSets, TLC

\* ------------------------------------------------------------------ bounds
NumCuis == 2
NumNames == 2
MaxSteps == 4
MaxNamesPerCall == 2
MaxBuildSteps == 3
NumCacheNames == 3
MaxCacheSteps == 4
NumDocs == 6
NumTrainDocs == 3
MaxLinkSteps == 2
MaxTrainSteps == 2
MaxDisambSteps == 1
MaxMergeSteps == 2
MaxVectorSteps == 2
MaxStatusSteps == 3
NumWords == 2
MaxVocabSteps == 4

\* ------------------------------------------------------- inputs and tags
CuiList == <<"c1", "c2", "c3", "c4">>
CUIS == {CuiList[i] : i \in 1..(IF NumCuis < Len(CuiList) THEN NumCuis ELSE Len(CuiList))}

separator == "~"

NameList == << <<"a">>, <<"a", "~", "b">>, <<"b">>, <<"a", " ", "b">> >>
NAMES == {NameList[i] : i \in 1..(IF NumNames < Len(NameList) THEN NumNames ELSE Len(NameList))}

TYPE_IDS == {"T1"}

AUTOMATIC == "A"
PRIMARY_STATUS_NO_DISAMB == "P"
PRIMARY_STATUS_W_DISAMB == "PD"
MUST_DISAMBIGATE == "N"
ALLOWED_STATUS == {PRIMARY_STATUS_NO_DISAMB, AUTOMATIC, MUST_DISAMBIGATE}

None == [isNone |-> TRUE, val |-> {}]
Some(v) == [isNone |-> FALSE, val |-> v]

\* ------------------------------------------------------- dict helpers
Put(f, k, v) == [x \in (DOMAIN f) \cup {k} |-> IF x = k THEN v ELSE f[x]]
Del(f, k) == [x \in (DOMAIN f) \ {k} |-> f[x]]
EmptyDict == [x \in {} |-> {}]
Range(s) == {s[i] : i \in DOMAIN s}

\* ------------------------------------------------------- numbers
\* a python float is an exact fraction [num, den] in lowest terms, den > 0
RECURSIVE GCD(_, _)
GCD(a, b) == IF b = 0 THEN a ELSE GCD(b, a % b)

Abs(x) == IF x < 0 THEN -x ELSE x

\* F of the value of v: v is evaluated once, however often F uses it
Let(F(_), v) == CHOOSE r \in {F(x) : x \in {v}} : TRUE

\* the fraction n/d in lowest terms with a positive denominator
Rat(n, d) ==
    Let(LAMBDA p :
            Let(LAMBDA g : [num |-> p[3] * (p[1] \div g),
                            den |-> p[3] * (p[2] \div g)],
                GCD(Abs(p[1]), Abs(p[2]))),
        <<n, d, IF d < 0 THEN -1 ELSE 1>>)

R(k) == [num |-> k, den |-> 1]
RAdd(a, b) ==
    Let(LAMBDA p : Rat(p[1].num * p[2].den + p[2].num * p[1].den,
                       p[1].den * p[2].den), <<a, b>>)
RNeg(a) == Let(LAMBDA x : [num |-> -x.num, den |-> x.den], a)
RSub(a, b) == RAdd(a, RNeg(b))
RMul(a, b) ==
    Let(LAMBDA p : Rat(p[1].num * p[2].num, p[1].den * p[2].den), <<a, b>>)
RDiv(a, b) ==
    Let(LAMBDA p : Rat(p[1].num * p[2].den, p[1].den * p[2].num), <<a, b>>)
RLeq(a, b) ==
    Let(LAMBDA p : p[1].num * p[2].den <= p[2].num * p[1].den, <<a, b>>)
RLt(a, b) ==
    Let(LAMBDA p : p[1].num * p[2].den < p[2].num * p[1].den, <<a, b>>)
RMax(a, b) == Let(LAMBDA p : IF RLeq(p[1], p[2]) THEN p[2] ELSE p[1], <<a, b>>)
RMin(a, b) == Let(LAMBDA p : IF RLeq(p[1], p[2]) THEN p[1] ELSE p[2], <<a, b>>)

\* ------------------------------------------------------- NameDescriptor
\* tokens: the pieces of the name between separators, in order
RECURSIVE SplitName(_, _)
SplitName(name, cur) ==
    IF name = <<>> THEN <<cur>>
    ELSE IF Head(name) = separator
         THEN <<cur>> \o SplitName(Tail(name), <<>>)
         ELSE SplitName(Tail(name), Append(cur, Head(name)))

\* snames: every prefix of the name that ends at a token boundary
SNames(name) ==
    {SubSeq(name, 1, k) : k \in {j \in 1..Len(name) :
                                   j = Len(name) \/ name[j + 1] = separator}}

NameDescriptor(name) ==
    [tokens |-> SplitName(name, <<>>),
     snames |-> SNames(name),
     raw_name |-> <<"r">> \o name,
     is_upper |-> FALSE]

\* ------------------------------------------------------- state
VARIABLES
    cui2info,           \* cui -> CUIInfo
    name2info,          \* name -> NameInfo
    type_id2info,       \* type id -> TypeInfo
    token_counts,       \* token -> count
    _subnames,          \* the subname cache
    is_dirty,
    has_changed_names,
    vector_dicts,       \* the context vector dicts of the concepts, by identity
    vocab,              \* the Vocab the linker draws its vectors from
    config,             \* config.components.linking
    doc,                \* the document of the last pipeline call
    automaton,          \* NER.automaton: the set of patterns it matches
    lastOp,             \* the last call and its arguments
    raised,             \* the exception the last call raised, or "none"
    pre,                \* the store as it was before the last call
    repeated,           \* the last call repeats the call before it
    phase,              \* shape of the history of calls
    steps

storeVars == <<cui2info, name2info, type_id2info, token_counts, _subnames,
               is_dirty, has_changed_names, vector_dicts, vocab>>
vars == <<cui2info, name2info, type_id2info, token_counts, _subnames,
          is_dirty, has_changed_names, vector_dicts, vocab, config, doc,
          automaton,
          lastOp, raised, pre, repeated, phase, steps>>

Store ==
    [cui2info |-> cui2info, name2info |-> name2info,
     type_id2info |-> type_id2info, token_counts |-> token_counts,
     _subnames |-> _subnames, is_dirty |-> is_dirty,
     has_changed_names |-> has_changed_names, vector_dicts |-> vector_dicts,
     vocab |-> vocab]

SetStore(S) ==
    /\ cui2info' = S.cui2info
    /\ name2info' = S.name2info
    /\ type_id2info' = S.type_id2info
    /\ token_counts' = S.token_counts
    /\ _subnames' = S._subnames
    /\ is_dirty' = S.is_dirty
    /\ has_changed_names' = S.has_changed_names
    /\ vector_dicts' = S.vector_dicts
    /\ vocab' = S.vocab

\* ------------------------------------------------------- records
\* context_vectors of a concept that has none: python None.  Any other
\* value is the identity of a dict object kept in vector_dicts.
NoVectors == 0

get_new_cui_info(cui, type_ids) ==
    [preferred_name |-> <<>>, names |-> {}, subnames |-> {},
     type_ids |-> type_ids, description |-> None,
     original_names |-> None, in_other_ontology |-> None,
     count_train |-> 0, context_vectors |-> NoVectors,
     average_confidence |-> R(0)]

get_new_name_info(name) ==
    [per_cui_status |-> EmptyDict, is_upper |-> FALSE, count_train |-> 0]

TypeInfo(type_id, name) == [name |-> name, cuis |-> {}]

\* ------------------------------------------------------- CDB operations
\* the token count loop, counting a token only the first time it is seen
RECURSIVE CountNewTokens(_, _)
CountNewTokens(counts, tokens) ==
    IF tokens = <<>> THEN counts
    ELSE LET token == Head(tokens)
             next == IF token \in DOMAIN counts
                     THEN counts
                     ELSE Put(counts, token, 1)
         IN CountNewTokens(next, Tail(tokens))

\* medcat2/cdb/cdb.py: _add_concept_names, the token count loop
RECURSIVE CountTokens(_, _)
CountTokens(counts, tokens) ==
    IF tokens = <<>> THEN counts
    ELSE LET token == Head(tokens)
             next == IF token \in DOMAIN counts
                     THEN Put(counts, token, counts[token] + 1)
                     ELSE Put(counts, token, 1)
         IN CountTokens(next, Tail(tokens))

\* the status update without the overwrite by a primary status
NewStatusMapNoOverwrite(status_map, cui, name_status) ==
    IF cui \notin DOMAIN status_map
    THEN Put(status_map, cui, name_status)
    ELSE status_map

\* the status update that overwrites the old status with any new one
NewStatusMapAlwaysOverwrite(status_map, cui, name_status) ==
    Put(status_map, cui, name_status)

\* the new status of the pair (name, cui), lines 150-156
NewStatusMap(status_map, cui, name_status) ==
    IF cui \notin DOMAIN status_map
    THEN Put(status_map, cui, name_status)
    ELSE IF name_status = PRIMARY_STATUS_NO_DISAMB
         THEN Put(status_map, cui, name_status)
         ELSE status_map

\* one iteration of the loop of _add_concept_names
AddConceptName(S, cui, name, name_status) ==
    LET in_name_info == NameDescriptor(name)
        cui_info == [S.cui2info[cui] EXCEPT
                        !.names = @ \cup {name},
                        !.subnames = @ \cup in_name_info.snames]
        old_info == IF name \in DOMAIN S.name2info
                    THEN S.name2info[name]
                    ELSE get_new_name_info(name)
        name_info == [old_info EXCEPT
                        !.is_upper = in_name_info.is_upper,
                        !.per_cui_status =
                            NewStatusMap(@, cui, name_status)]
    IN [S EXCEPT
          !.cui2info = Put(@, cui, cui_info),
          !.name2info = Put(@, name, name_info),
          !.token_counts = CountTokens(@, in_name_info.tokens),
          !._subnames = @ \cup cui_info.subnames,
          !.is_dirty = TRUE]

RECURSIVE _add_concept_names(_, _, _, _)
_add_concept_names(S, cui, names, name_status) ==
    IF names = <<>> THEN S
    ELSE _add_concept_names(AddConceptName(S, cui, Head(names), name_status),
                            cui, Tail(names), name_status)

\* the type id loop of _add_full_build
RECURSIVE AddTypeIds(_, _, _)
AddTypeIds(t2i, cui, type_ids) ==
    IF type_ids = {} THEN t2i
    ELSE LET type_id == CHOOSE t \in type_ids : TRUE
             type_info == IF type_id \in DOMAIN t2i THEN t2i[type_id]
                          ELSE TypeInfo(type_id, "N/A")
         IN AddTypeIds(Put(t2i, type_id,
                           [type_info EXCEPT !.cuis = @ \cup {cui}]),
                       cui, type_ids \ {type_id})

_add_full_build(S, cui, names, ontologies, description, type_ids) ==
    LET cui_info == S.cui2info[cui]
        orig_names == {NameDescriptor(n).raw_name : n \in Range(names)}
        info1 ==
            IF cui_info.original_names.isNone
            THEN [cui_info EXCEPT
                    !.in_other_ontology =
                        IF ontologies # {} THEN Some(ontologies) ELSE @,
                    !.original_names = Some(orig_names)]
            ELSE [cui_info EXCEPT
                    !.in_other_ontology =
                        IF ontologies # {}
                        THEN Some(@.val \cup ontologies) ELSE @,
                    !.original_names = Some(@.val \cup orig_names)]
        info2 == IF description # ""
                 THEN [info1 EXCEPT !.description = Some({description})]
                 ELSE info1
    IN [S EXCEPT
          !.cui2info = Put(@, cui, info2),
          !.type_id2info = AddTypeIds(@, cui, type_ids)]

\* _add_concept, lines 246-254: the concept record is created or updated
AddConceptInfo(S, cui, type_ids) ==
    IF cui \notin DOMAIN S.cui2info
    THEN [S EXCEPT !.cui2info = Put(@, cui, get_new_cui_info(cui, type_ids))]
    ELSE [S EXCEPT !.cui2info[cui].type_ids = @ \cup type_ids]

\* _add_concept, lines 256-269, on the store S1 that has the concept record
AddConceptRest(S1, cui, names, ontologies, name_status, type_ids, description, full_build) ==
    LET S2 == _add_concept_names(S1, cui, names, name_status)
        S3 == IF name_status = "P" /\ S2.cui2info[cui].preferred_name = <<>>
              THEN [S2 EXCEPT !.cui2info[cui].preferred_name =
                        NameDescriptor(names[Len(names)]).raw_name]
              ELSE S2
        S4 == IF full_build
              THEN _add_full_build(S3, cui, names, ontologies, description,
                                   type_ids)
              ELSE S3
    IN [S4 EXCEPT !.is_dirty = TRUE]

\* _add_concept with the empty check after the concept record is made
AddConceptLateCheck(S, cui, names, ontologies, name_status, type_ids, description, full_build) ==
    LET S1 == AddConceptInfo(S, cui, type_ids)
    IN IF names = <<>> THEN S1
       ELSE AddConceptRest(S1, cui, names, ontologies, name_status, type_ids,
                           description, full_build)

\* names is the names dict in insertion order (its keys; the descriptor of
\* a key is NameDescriptor(key))
_add_concept(S, cui, names, ontologies, name_status, type_ids, description, full_build) ==
    IF names = <<>> THEN S
    ELSE AddConceptRest(AddConceptInfo(S, cui, type_ids), cui, names,
                        ontologies, name_status, type_ids, description,
                        full_build)

\* add_names: the status is upper-cased and falls back to AUTOMATIC
add_names(S, cui, names, name_status, full_build) ==
    _add_concept(S, cui, names, {},
                 IF name_status \in ALLOWED_STATUS THEN name_status
                 ELSE AUTOMATIC,
                 {}, "", full_build)

_reset_subnames(S) ==
    [S EXCEPT
       !._subnames = UNION {S.cui2info[c].subnames : c \in DOMAIN S.cui2info},
       !.has_changed_names = FALSE]

has_subname(S, name) ==
    IF S.has_changed_names
       \/ Cardinality(S._subnames) < Cardinality(DOMAIN S.name2info)
    THEN _reset_subnames(S)
    ELSE S

\* the value has_subname returns: name in self._subnames, after the rebuild
has_subname_result(S, name) == name \in has_subname(S, name)._subnames

\* CUIInfo.reset_training that keeps the training count
ResetVectorsOnly(cui_info) ==
    [cui_info EXCEPT !.context_vectors = NoVectors,
                     !.average_confidence = R(0)]

\* CUIInfo.reset_training
reset_cui_training(cui_info) ==
    [cui_info EXCEPT !.context_vectors = NoVectors, !.count_train = 0,
                     !.average_confidence = R(0)]

\* CDB.reset_training (config.meta.unsup_trained and sup_trained, which it
\* also clears, are not part of this model)
reset_training(S) ==
    [S EXCEPT
       !.cui2info = [cui \in DOMAIN @ |-> reset_cui_training(@[cui])],
       !.name2info = [name \in DOMAIN @ |-> [@[name] EXCEPT !.count_train = 0]],
       !._subnames = {},
       !.is_dirty = TRUE,
       \* no concept refers to a context vector dict any more
       !.vector_dicts = <<>>]

\* filter_by_cui: the result is the new store and the exception raised
names_to_keep(S, cuis_to_keep) ==
    UNION {S.cui2info[cui].names : cui \in cuis_to_keep \cap DOMAIN S.cui2info}

\* the concepts to keep without the second hop through the names
only_requested_cuis(S, cuis_to_keep) == cuis_to_keep

all_cuis_to_keep(S, cuis_to_keep) ==
    UNION {DOMAIN S.name2info[name].per_cui_status :
              name \in names_to_keep(S, cuis_to_keep)}

filter_by_cui(S, cuis_to_keep) ==
    LET names == names_to_keep(S, cuis_to_keep)
    IN IF \E name \in names : name \notin DOMAIN S.name2info
       THEN \* self.name2info[name] of line 324
            [store |-> S, raised |-> "KeyError"]
       ELSE LET all_cuis == all_cuis_to_keep(S, cuis_to_keep)
                new_cui2info == [cui \in all_cuis \cap DOMAIN S.cui2info |->
                                    S.cui2info[cui]]
                new_name2info == [name \in names |-> S.name2info[name]]
                S1 == [S EXCEPT !.cui2info = new_cui2info,
                                !.name2info = new_name2info]
            IN [store |-> [_reset_subnames(S1) EXCEPT !.is_dirty = TRUE],
                raised |-> "none"]

\* _remove_names, lines 364-369 (and again 372-379): drop the pair
RemovePair(n2i, cui, name) ==
    IF name \in DOMAIN n2i
    THEN LET status == [c \in (DOMAIN n2i[name].per_cui_status) \ {cui} |->
                           n2i[name].per_cui_status[c]]
         IN IF DOMAIN status = {}
            THEN Del(n2i, name)
            ELSE [n2i EXCEPT ![name].per_cui_status = status]
    ELSE n2i

\* lines 387-390 with no status change
NoTighten(status) == status

\* lines 387-390 with the status pairs swapped
Loosen(status) ==
    IF status = "N" THEN "A"
    ELSE IF status = "PD" THEN "P"
    ELSE status

\* _remove_names, lines 387-390
Tighten(status) ==
    IF status = "A" THEN "N"
    ELSE IF status = "P" THEN "PD"
    ELSE status

\* _remove_names, lines 382-390
TightenSingle(n2i, name) ==
    IF name \in DOMAIN n2i
       /\ Cardinality(DOMAIN n2i[name].per_cui_status) = 1
    THEN [n2i EXCEPT ![name].per_cui_status =
             [c \in DOMAIN @ |-> Tighten(@[c])]]
    ELSE n2i

RemoveName(n2i, cui, name) ==
    TightenSingle(RemovePair(RemovePair(n2i, cui, name), cui, name), name)

RECURSIVE RemoveNameLoop(_, _, _)
RemoveNameLoop(n2i, cui, names) ==
    IF names = {} THEN n2i
    ELSE LET name == CHOOSE n \in names : TRUE
         IN RemoveNameLoop(RemoveName(n2i, cui, name), cui, names \ {name})

_remove_names(S, cui, names) ==
    [S EXCEPT !.name2info = RemoveNameLoop(@, cui, names),
              !.is_dirty = TRUE,
              !.has_changed_names = TRUE]

\* CDB._undirty, called by the name matcher before it rebuilds
_undirty(S) == [S EXCEPT !.is_dirty = FALSE, !.has_changed_names = FALSE]

\* ------------------------------------------------------- name matcher
\* name.replace(separator, " ")
clean_name(name) ==
    [i \in 1..Len(name) |-> IF name[i] = separator THEN " " ELSE name[i]]

_rebuild_automaton(n2i) == {clean_name(name) : name \in DOMAIN n2i}

\* ------------------------------------------------------- linking config
\* config.components.linking with its default values, except for the two
\* window dicts, which are cut down to two labels with weights adding up to 1
Linking ==
    [optim |-> [type |-> "linear", base_lr |-> R(1), min_lr |-> Rat(1, 20000)],
     context_vector_sizes |-> [long |-> 3, short |-> 1],
     context_vector_weights |-> [long |-> Rat(1, 2), short |-> Rat(1, 2)],
     filters |-> [cuis |-> {}, cuis_exclude |-> {}],
     train |-> TRUE,
     disamb_length_limit |-> 3,
     filter_before_disamb |-> FALSE,
     train_count_threshold |-> 1,
     always_calculate_similarity |-> FALSE,
     calculate_dynamic_threshold |-> FALSE,
     similarity_threshold_type |-> "static",
     similarity_threshold |-> Rat(1, 4),
     prefer_primary_name |-> Rat(35, 100),
     prefer_frequent_concepts |-> Rat(35, 100),
     devalue_linked_concepts |-> FALSE,
     context_ignore_center_tokens |-> FALSE]

\* LinkingFilters.check_filters
check_filters(filters, cui) ==
    IF cui \in filters.cuis \/ filters.cuis = {}
    THEN cui \notin filters.cuis_exclude
    ELSE FALSE

PRIMARY_STATUS == {PRIMARY_STATUS_NO_DISAMB, PRIMARY_STATUS_W_DISAMB}
DO_DISAMBUGATION == {PRIMARY_STATUS_W_DISAMB, MUST_DISAMBIGATE}

\* ------------------------------------------------------- documents
\* A word is a sequence of characters, as a name is.  The vocabulary maps a
\* word to its vector; vectors have one dimension.
VOCAB ==
    (<<"a">> :> R(1)) @@ (<<"b">> :> R(1)) @@ (<<"x">> :> R(-4))

\* ------------------------------------------------------- vocabulary
\* A Vocab object.  vocab is the dict word -> WordDescriptor, as the sequence
\* of its items in insertion order; index2word and vec_index2word are dicts
\* index -> word; unigram_table is the set of the indices that occur in the
\* table (empty when the table was never made).
EmptyVocab ==
    [vocab |-> <<>>, index2word |-> EmptyDict, vec_index2word |-> EmptyDict,
     unigram_table |-> {}]

\* word in self.vocab, and the place of its item
InVocab(V, word) == \E i \in DOMAIN V.vocab : V.vocab[i].word = word
ItemOf(V, word) == CHOOSE i \in DOMAIN V.vocab : V.vocab[i].word = word

\* Vocab.add_word; vec is None or Some(vector)
add_word(V, word, cnt, vec, replace) ==
    IF ~InVocab(V, word)
    THEN LET ind == Cardinality(DOMAIN V.index2word)
         IN [V EXCEPT !.index2word = Put(@, ind, word),
                      !.vocab = Append(@, [word |-> word, vector |-> vec,
                                           count |-> cnt, index |-> ind]),
                      !.vec_index2word = IF vec.isNone THEN @
                                         ELSE Put(@, ind, word)]
    ELSE IF replace /\ ~vec.isNone
    THEN LET i == ItemOf(V, word)
             ind == V.vocab[i].index
         IN [V EXCEPT !.vocab[i].vector = vec, !.vocab[i].count = cnt,
                      !.vec_index2word = IF ind \in DOMAIN @ THEN @
                                         ELSE Put(@, ind, word)]
    ELSE V

\* Vocab.inc_wc of a word of the vocabulary
inc_wc(V, word, cnt) == [V EXCEPT !.vocab[ItemOf(V, word)].count = @ + cnt]

\* Vocab.inc_or_add
inc_or_add(V, word, cnt, vec) ==
    IF ~InVocab(V, word) THEN add_word(V, word, cnt, vec, TRUE)
    ELSE inc_wc(V, word, cnt)

\* remove_all_vectors that leaves vec_index2word as it is
RemoveVectorsKeepIndex(V) ==
    [V EXCEPT !.vocab = [i \in DOMAIN @ |-> [@[i] EXCEPT !.vector = None]]]

\* Vocab.remove_all_vectors
remove_all_vectors(V) ==
    [V EXCEPT !.vec_index2word = EmptyDict,
              !.vocab = [i \in DOMAIN @ |-> [@[i] EXCEPT !.vector = None]]]

\* Vocab._rebuild_index: the items get the indices 0, 1, ... in their order
_rebuild_index(V) ==
    LET n == Len(V.vocab)
    IN [V EXCEPT !.index2word = [ind \in 0..(n - 1) |-> V.vocab[ind + 1].word],
                 !.vocab = [i \in 1..n |-> [V.vocab[i] EXCEPT !.index = i - 1]],
                 !.vec_index2word =
                     [ind \in {j \in 0..(n - 1) : ~V.vocab[j + 1].vector.isNone}
                         |-> V.vocab[ind + 1].word]]

\* Vocab.remove_words_below_cnt
remove_words_below_cnt(V, cnt) ==
    _rebuild_index(
        [V EXCEPT !.vocab = SelectSeq(@, LAMBDA item : ~(item.count < cnt))])

\* Vocab.add_vec: the result is the vocabulary and the exception raised
add_vec(V, word, vec) ==
    IF ~InVocab(V, word) THEN [vocab |-> V, raised |-> "KeyError"]
    ELSE LET i == ItemOf(V, word)
             ind == V.vocab[i].index
         IN [vocab |-> [V EXCEPT !.vocab[i].vector = Some(vec),
                                 !.vec_index2word = IF ind \in DOMAIN @ THEN @
                                                    ELSE Put(@, ind, word)],
             raised |-> "none"]

\* Vocab.make_unigram_table with the default table_size: a word that has a
\* vector and a positive count gets int(p * table_size) >= 1 places
make_unigram_table(V) ==
    [V EXCEPT !.unigram_table =
        {ind \in DOMAIN V.vec_index2word :
            \E i \in DOMAIN V.vocab : /\ V.vocab[i].word = V.vec_index2word[ind]
                                      /\ V.vocab[i].count > 0}]

\* Vocab.get_negative_samples: the exception it raises.  The indices it
\* returns are random draws from the table.
get_negative_samples(V) ==
    IF V.unigram_table = {} THEN "Exception" ELSE "none"

\* the vocabulary of the linker: the words of VOCAB with their vectors and
\* count 1, with the unigram table made or not
LinkerVocab(table_made) ==
    Let(LAMBDA V : IF table_made THEN make_unigram_table(V) ELSE V,
        add_word(add_word(add_word(EmptyVocab, <<"a">>, 1,
                                   Some(VOCAB[<<"a">>]), TRUE),
                          <<"b">>, 1, Some(VOCAB[<<"b">>]), TRUE),
                 <<"x">>, 1, Some(VOCAB[<<"x">>]), TRUE))

\* detected_name of a mention without one (python None)
NoName == <<"None">>

\* a mention of the document: its tokens are those at start_index..end_index
Entity(id, start_index, end_index, detected_name, link_candidates) ==
    [id |-> id, start_index |-> start_index, end_index |-> end_index,
     detected_name |-> detected_name, link_candidates |-> link_candidates,
     cui |-> "", context_similarity |-> R(0)]

\* len(entity)
EntityLen(entity) == entity.end_index - entity.start_index + 1

EntityTokens(entity) == entity.start_index .. entity.end_index

\* entity.base.text: the words of the mention joined by one space
RECURSIVE JoinWords(_)
JoinWords(words) ==
    IF words = <<>> THEN <<>>
    ELSE IF Len(words) = 1 THEN words[1]
    ELSE words[1] \o <<" ">> \o JoinWords(Tail(words))

EntityText(d, entity) ==
    JoinWords([i \in 1..EntityLen(entity) |->
                  d.tokens[entity.start_index + i - 1]])

\* ------------------------------------------------------- context model
\* CDB.weighted_average_function: the weight of the token at a step
weighted_average_function(step) == Rat(1, step + 1)

RECURSIVE RSum(_, _)
RSum(f, S) ==
    IF S = {} THEN R(0)
    ELSE Let(LAMBDA x : RAdd(f[x], RSum(f, S \ {x})), CHOOSE y \in S : TRUE)

\* _tokens2vecs: the steps of the words that have a vector, and the vectors
\* scaled by the weight of their step (steps count from 0)
VecSteps(words) == {i \in 1..Len(words) : words[i] \in DOMAIN VOCAB}

_tokens2vecs(words) ==
    [i \in VecSteps(words) |->
        RMul(VOCAB[words[i]], weighted_average_function(i - 1))]

\* get_context_tokens: left (nearest first), centre and right words
tokens_left(d, entity, size) ==
    LET first == IF entity.start_index - size < 1 THEN 1
                 ELSE entity.start_index - size
        n == entity.start_index - first
    IN [i \in 1..n |-> d.tokens[entity.start_index - i]]

tokens_center(d, entity) ==
    [i \in 1..EntityLen(entity) |-> d.tokens[entity.start_index + i - 1]]

tokens_right(d, entity, size) ==
    LET last == IF entity.end_index + size > Len(d.tokens) THEN Len(d.tokens)
                ELSE entity.end_index + size
        n == last - entity.end_index
    IN [i \in 1..n |-> d.tokens[entity.end_index + i]]

\* _preprocess_center_tokens: new_name is the synonym drawn for the centre,
\* NoName when the centre is kept
_preprocess_center_tokens(d, entity, new_name) ==
    IF new_name # NoName THEN SplitName(new_name, <<>>)
    ELSE tokens_center(d, entity)

\* get_context_vectors: one averaged vector for every window label that has
\* at least one value
ContextValues(cfg, d, entity, new_name, context_type) ==
    LET size == cfg.context_vector_sizes[context_type]
    IN Let(LAMBDA left :
       Let(LAMBDA center :
       Let(LAMBDA right :
           [n |-> Cardinality(DOMAIN left) + Cardinality(DOMAIN center)
                   + Cardinality(DOMAIN right),
            sum |-> RAdd(RSum(left, DOMAIN left),
                         RAdd(RSum(center, DOMAIN center),
                              RSum(right, DOMAIN right)))],
           _tokens2vecs(tokens_right(d, entity, size))),
           IF cfg.context_ignore_center_tokens THEN <<>>
           ELSE _tokens2vecs(_preprocess_center_tokens(d, entity, new_name))),
           _tokens2vecs(tokens_left(d, entity, size)))

get_context_vectors(cfg, d, entity, new_name) ==
    Let(LAMBDA values :
            [ct \in {t \in DOMAIN values : values[t].n > 0} |->
                RDiv(values[ct].sum, R(values[ct].n))],
        [ct \in DOMAIN cfg.context_vector_sizes |->
            ContextValues(cfg, d, entity, new_name[ct], ct)])

\* no synonym is drawn for any window label
KeepCenter == [ct \in DOMAIN Linking.context_vector_sizes |-> NoName]

\* np.dot(unitvec(v1), unitvec(v2)) of vectors with one dimension
Sign(v) == IF v.num > 0 THEN 1 ELSE IF v.num < 0 THEN -1 ELSE 0
cosine(v1, v2) == R(Sign(v1) * Sign(v2))

get_similarity(cur_vectors, other, weights) ==
    Let(LAMBDA terms : RSum(terms, DOMAIN terms),
        [t \in {t \in DOMAIN weights :
                    t \in DOMAIN other /\ t \in DOMAIN cur_vectors} |->
            RMul(weights[t], cosine(cur_vectors[t], other[t]))])

\* the dict that context_vectors of a concept refers to ({} for None)
VectorsOf(S, cui_info) ==
    IF cui_info.context_vectors = NoVectors THEN EmptyDict
    ELSE S.vector_dicts[cui_info.context_vectors]

_similarity(S, cfg, cui, vectors) ==
    LET cui_info == S.cui2info[cui]
        cui_vectors == VectorsOf(S, cui_info)
    IN IF DOMAIN cui_vectors # {}
          /\ cui_info.count_train >= cfg.train_count_threshold
       THEN get_similarity(cui_vectors, vectors, cfg.context_vector_weights)
       ELSE R(-1)

similarity(S, cfg, cui, entity, d) ==
    Let(LAMBDA vectors : _similarity(S, cfg, cui, vectors),
        get_context_vectors(cfg, d, entity, KeepCenter))

get_lr_linking(cfg, cui_count) ==
    IF cfg.optim.type = "standard" THEN cfg.optim.lr
    ELSE RMax(RDiv(cfg.optim.base_lr, R(cui_count + 1)), cfg.optim.min_lr)

\* update_context_vectors: the dict to_update after the update by new_vecs
update_context_vectors(to_update, new_vecs, lr, negative) ==
    LET updated(context_type) ==
            LET vector == new_vecs[context_type]
            IN IF context_type \in DOMAIN to_update
               THEN LET cv == to_update[context_type]
                        sim == cosine(cv, vector)
                    IN IF negative
                       THEN Let(LAMBDA b : RSub(RMul(cv, RSub(R(1), b)),
                                                RMul(vector, b)),
                                RMul(RMax(R(0), sim), lr))
                       ELSE Let(LAMBDA b : RAdd(RMul(cv, RSub(R(1), b)),
                                                RMul(vector, b)),
                                RMul(RSub(R(1), RMax(R(0), sim)), lr))
               ELSE IF negative THEN RNeg(vector) ELSE vector
    IN [ct \in (DOMAIN to_update) \cup (DOMAIN new_vecs) |->
           IF ct \in DOMAIN new_vecs THEN updated(ct) ELSE to_update[ct]]

get_updated_average_confidence(cur_ac, cnt_train, new_sim) ==
    RDiv(RAdd(RMul(cur_ac, R(cnt_train)), new_sim), R(cnt_train + 1))

\* "if not cui_info.context_vectors": None or an empty dict
HasNoVectors(S, cui) == DOMAIN VectorsOf(S, S.cui2info[cui]) = {}

\* the step shared by train, train_using_negative_sampling and the
\* devaluation loop: the dict object ref (holding vectors) becomes the
\* context vectors of the concept, or the concept's own dict is updated
StoreOrUpdate(S, cui, ref, vectors, lr, negative) ==
    IF HasNoVectors(S, cui)
    THEN [S EXCEPT !.cui2info[cui].context_vectors = ref]
    ELSE [S EXCEPT !.vector_dicts[S.cui2info[cui].context_vectors] =
             update_context_vectors(@, vectors, lr, negative)]

\* train, lines 288-307: the statuses of the listed names are tightened; a
\* read of per_cui_status creates the entry of the concept when it is absent
RECURSIVE TightenNames(_, _, _)
TightenNames(n2i, cui, names) ==
    IF names = <<>> THEN n2i
    ELSE LET name == Head(names)
         IN IF name \notin DOMAIN n2i
            THEN TightenNames(n2i, cui, Tail(names))
            ELSE LET per_cui_status == n2i[name].per_cui_status
                     cui_status == IF cui \in DOMAIN per_cui_status
                                   THEN per_cui_status[cui] ELSE AUTOMATIC
                     new_status ==
                         IF cui_status = PRIMARY_STATUS_NO_DISAMB
                         THEN PRIMARY_STATUS_W_DISAMB
                         ELSE IF cui_status = AUTOMATIC THEN MUST_DISAMBIGATE
                         ELSE cui_status
                 IN TightenNames(
                        [n2i EXCEPT ![name].per_cui_status =
                            Put(@, cui, new_status)],
                        cui, Tail(names))

\* train, lines 308-325: the concepts that share a name with cui
OtherCuis(S, cui) ==
    (UNION {DOMAIN S.name2info[name].per_cui_status :
               name \in S.cui2info[cui].names}) \ {cui}

RECURSIVE Devalue(_, _, _, _, _)
Devalue(S, others, ref, vectors, lr) ==
    IF others = {} THEN S
    ELSE Let(LAMBDA _cui :
             Let(LAMBDA S1 : Devalue(S1, others \ {_cui}, ref, vectors, lr),
                 StoreOrUpdate(S, _cui, ref, vectors, lr, TRUE)),
             CHOOSE c \in others : TRUE)

\* the new dict object ref is dropped again when no concept refers to it
Collect(S, ref) ==
    IF \E cui \in DOMAIN S.cui2info : S.cui2info[cui].context_vectors = ref
    THEN S
    ELSE [S EXCEPT !.vector_dicts = SubSeq(@, 1, ref - 1)]

\* train that counts negative examples as well
TrainCountsNegatives(S, cfg, cui, entity, d, negative, names, new_name) ==
    IF EntityLen(entity) = 0 THEN [store |-> S, raised |-> "none"]
    ELSE IF cui \notin DOMAIN S.cui2info
    THEN [store |-> S, raised |-> "KeyError"]
    ELSE
    LET lr == get_lr_linking(cfg, S.cui2info[cui].count_train)
        \* vectors is a new dict object
        ref == Len(S.vector_dicts) + 1
        named == entity.detected_name # NoName /\ entity.detected_name # <<>>
        devalue == ~negative /\ cfg.devalue_linked_concepts
    IN Let(LAMBDA vectors :
       Let(LAMBDA S1 :
       Let(LAMBDA S2 :
           IF ~negative /\ named
              /\ entity.detected_name \notin DOMAIN S.name2info
           THEN [store |-> Collect(S2, ref), raised |-> "KeyError"]
           ELSE
           Let(LAMBDA S3 :
           Let(LAMBDA S4 :
           Let(LAMBDA S5 :
               IF devalue /\ \E name \in S.cui2info[cui].names :
                                 name \notin DOMAIN S.name2info
               THEN [store |-> Collect(S5, ref), raised |-> "KeyError"]
               ELSE IF devalue /\ \E c \in OtherCuis(S, cui) :
                                      c \notin DOMAIN S.cui2info
               THEN [store |-> Collect(S5, ref), raised |-> "KeyError"]
               ELSE IF devalue
               THEN Let(LAMBDA S6 : [store |-> Collect(S6, ref),
                                     raised |-> "none"],
                        Devalue(S5, OtherCuis(S, cui), ref, vectors, lr))
               ELSE [store |-> Collect(S5, ref), raised |-> "none"],
               IF negative
               THEN [S4 EXCEPT !.name2info = TightenNames(@, cui, names)]
               ELSE S4),
               IF ~negative /\ cfg.calculate_dynamic_threshold
               THEN [S3 EXCEPT !.cui2info[cui].average_confidence =
                        get_updated_average_confidence(
                            @, S3.cui2info[cui].count_train,
                            similarity(S3, cfg, cui, entity, d))]
               ELSE S3),
               IF ~negative /\ named
               THEN [S2 EXCEPT
                        !.name2info[entity.detected_name].count_train = @ + 1]
               ELSE S2),
           [S1 EXCEPT !.cui2info[cui].count_train = @ + 1]),
           StoreOrUpdate([S EXCEPT !.vector_dicts = Append(@, vectors)], cui,
                         ref, vectors, lr, negative)),
           get_context_vectors(cfg, d, entity, new_name))

\* ContextModel.train.  new_name gives, for every window label, the synonym
\* that replaces the centre (NoName: none).  The result is the store and the
\* exception raised.
train(S, cfg, cui, entity, d, negative, names, new_name) ==
    IF EntityLen(entity) = 0 THEN [store |-> S, raised |-> "none"]
    ELSE IF cui \notin DOMAIN S.cui2info
    THEN [store |-> S, raised |-> "KeyError"]
    ELSE
    LET lr == get_lr_linking(cfg, S.cui2info[cui].count_train)
        \* vectors is a new dict object
        ref == Len(S.vector_dicts) + 1
        named == entity.detected_name # NoName /\ entity.detected_name # <<>>
        devalue == ~negative /\ cfg.devalue_linked_concepts
    IN Let(LAMBDA vectors :
       Let(LAMBDA S1 :
       Let(LAMBDA S2 :
           IF ~negative /\ named
              /\ entity.detected_name \notin DOMAIN S.name2info
           THEN [store |-> Collect(S2, ref), raised |-> "KeyError"]
           ELSE
           Let(LAMBDA S3 :
           Let(LAMBDA S4 :
           Let(LAMBDA S5 :
               IF devalue /\ \E name \in S.cui2info[cui].names :
                                 name \notin DOMAIN S.name2info
               THEN [store |-> Collect(S5, ref), raised |-> "KeyError"]
               ELSE IF devalue /\ \E c \in OtherCuis(S, cui) :
                                      c \notin DOMAIN S.cui2info
               THEN [store |-> Collect(S5, ref), raised |-> "KeyError"]
               ELSE IF devalue
               THEN Let(LAMBDA S6 : [store |-> Collect(S6, ref),
                                     raised |-> "none"],
                        Devalue(S5, OtherCuis(S, cui), ref, vectors, lr))
               ELSE [store |-> Collect(S5, ref), raised |-> "none"],
               IF negative
               THEN [S4 EXCEPT !.name2info = TightenNames(@, cui, names)]
               ELSE S4),
               IF ~negative /\ cfg.calculate_dynamic_threshold
               THEN [S3 EXCEPT !.cui2info[cui].average_confidence =
                        get_updated_average_confidence(
                            @, S3.cui2info[cui].count_train,
                            similarity(S3, cfg, cui, entity, d))]
               ELSE S3),
               IF ~negative /\ named
               THEN [S2 EXCEPT
                        !.name2info[entity.detected_name].count_train = @ + 1]
               ELSE S2),
           IF negative THEN S1
           ELSE [S1 EXCEPT !.cui2info[cui].count_train = @ + 1]),
           StoreOrUpdate([S EXCEPT !.vector_dicts = Append(@, vectors)], cui,
                         ref, vectors, lr, negative)),
           get_context_vectors(cfg, d, entity, new_name))

\* train_using_negative_sampling: vectors is the average of the sampled
\* vocabulary vectors for every window label.  The result is the store and
\* the exception raised.
train_using_negative_sampling(S, cfg, cui, vectors) ==
    IF DOMAIN cfg.context_vector_sizes # {}
       /\ get_negative_samples(S.vocab) # "none"
    THEN [store |-> S, raised |-> get_negative_samples(S.vocab)]
    ELSE IF cui \notin DOMAIN S.cui2info
    THEN [store |-> S, raised |-> "KeyError"]
    ELSE LET lr == get_lr_linking(cfg, S.cui2info[cui].count_train)
             ref == Len(S.vector_dicts) + 1
         IN Let(LAMBDA S1 : [store |-> Collect(S1, ref), raised |-> "none"],
                StoreOrUpdate([S EXCEPT !.vector_dicts = Append(@, vectors)],
                              cui, ref, vectors, lr, TRUE))

\* np.log10 on the ratios of the training counts used here
log10(q) ==
    CASE q = R(1) -> R(0)
      [] q = R(10) -> R(1)
      [] q = R(100) -> R(2)
      [] q = R(1000) -> R(3)

MinOf(ns) == CHOOSE n \in ns : \A m \in ns : n <= m

\* per_cui_status[cui] of a status map that gives AUTOMATIC for a missing key
StatusOrDefault(per_cui_status, cui) ==
    IF cui \in DOMAIN per_cui_status THEN per_cui_status[cui] ELSE AUTOMATIC

\* the similarity cap of _preprocess_disamb_similarities
SimilarityCap == Rat(99, 100)

\* _preprocess_disamb_similarities, the primary name loop
PreferPrimary(S, cfg, name, cuis, similarities) ==
    [i \in DOMAIN similarities |->
        LET sim == similarities[i]
        IN IF RLeq(sim, R(0)) THEN sim
           ELSE IF StatusOrDefault(S.name2info[name].per_cui_status, cuis[i])
                       \in PRIMARY_STATUS
           THEN RMin(SimilarityCap,
                     RMul(sim, RAdd(R(1), cfg.prefer_primary_name)))
           ELSE sim]

\* the frequency part without the cap
PreferFrequentUncapped(S, cfg, cuis, similarities) ==
    LET cnts == [i \in DOMAIN cuis |-> S.cui2info[cuis[i]].count_train]
        least == MinOf(Range(cnts))
        m == IF least = 0 THEN 1 ELSE least
    IN Let(LAMBDA scales :
               [i \in DOMAIN similarities |->
                   RAdd(similarities[i], RMul(similarities[i], scales[i]))],
           [i \in DOMAIN cuis |->
               IF cnts[i] > 10
               THEN RMul(log10(Rat(cnts[i], m)), cfg.prefer_frequent_concepts)
               ELSE R(0)])

\* _preprocess_disamb_similarities, the frequency part
PreferFrequent(S, cfg, cuis, similarities) ==
    LET cnts == [i \in DOMAIN cuis |-> S.cui2info[cuis[i]].count_train]
        least == MinOf(Range(cnts))
        m == IF least = 0 THEN 1 ELSE least
    IN Let(LAMBDA scales :
               [i \in DOMAIN similarities |->
                   RMin(SimilarityCap,
                        RAdd(similarities[i],
                             RMul(similarities[i], scales[i])))],
           [i \in DOMAIN cuis |->
               IF cnts[i] > 10
               THEN RMul(log10(Rat(cnts[i], m)), cfg.prefer_frequent_concepts)
               ELSE R(0)])

\* the result is the new similarities and the exception raised
_preprocess_disamb_similarities(S, cfg, name, cuis, similarities) ==
    LET primary == RLt(R(0), cfg.prefer_primary_name)
        frequent == RLt(R(0), cfg.prefer_frequent_concepts)
    IN IF primary /\ name \notin DOMAIN S.name2info
          /\ \E i \in DOMAIN similarities : RLt(R(0), similarities[i])
       THEN \* self.name2info[name] of line 191
            [similarities |-> similarities, raised |-> "KeyError"]
       ELSE Let(LAMBDA sims1 :
                    [similarities |-> IF frequent
                                      THEN PreferFrequent(S, cfg, cuis, sims1)
                                      ELSE sims1,
                     raised |-> "none"],
                IF primary THEN PreferPrimary(S, cfg, name, cuis, similarities)
                ELSE similarities)

\* np.argmax: the first position that holds the largest value
argmax(similarities) ==
    CHOOSE i \in DOMAIN similarities :
        /\ \A j \in DOMAIN similarities : RLeq(similarities[j], similarities[i])
        /\ \A j \in 1..(i - 1) : RLt(similarities[j], similarities[i])

\* cuis without the concepts that do not pass the filters, in order
RECURSIVE FilterCuis(_, _)
FilterCuis(filters, cuis) ==
    IF cuis = <<>> THEN <<>>
    ELSE IF check_filters(filters, Head(cuis))
    THEN <<Head(cuis)>> \o FilterCuis(filters, Tail(cuis))
    ELSE FilterCuis(filters, Tail(cuis))

\* ContextModel.disambiguate: cui is "" for None
disambiguate(S, cfg, cuis, entity, name, d) ==
    LET kept == IF cfg.filter_before_disamb
                THEN FilterCuis(cfg.filters, cuis) ELSE cuis
    IN IF kept = <<>>
       THEN [cui |-> "", similarity |-> R(0), raised |-> "none"]
       ELSE IF \E i \in DOMAIN kept : kept[i] \notin DOMAIN S.cui2info
       THEN [cui |-> "", similarity |-> R(0), raised |-> "KeyError"]
       ELSE
       Let(LAMBDA vectors :
       Let(LAMBDA similarities :
       Let(LAMBDA r :
           IF r.raised # "none"
           THEN [cui |-> "", similarity |-> R(0), raised |-> r.raised]
           ELSE Let(LAMBDA mx : [cui |-> kept[mx],
                                 similarity |-> r.similarities[mx],
                                 raised |-> "none"],
                    argmax(r.similarities)),
           _preprocess_disamb_similarities(S, cfg, name, kept, similarities)),
           [i \in DOMAIN kept |-> _similarity(S, cfg, kept[i], vectors)]),
           get_context_vectors(cfg, d, entity, KeepCenter))

\* ------------------------------------------------------- linker
NoDoc == [tokens |-> <<>>, all_ents |-> <<>>, final_ents |-> <<>>]

\* the random draws of one call (negative_probability >= random.random(),
\* _should_change_name, random.choice, get_negative_samples): whether the
\* centre is replaced and by which synonym, whether negative sampling is
\* done and the averaged negative sample of every window label
NoChance == [new_name |-> NoName, add_negative |-> FALSE, negative_sample |-> EmptyDict]

\* the synonym drawn for concept cui, for every window label
NewName(S, cui, chance) ==
    [ct \in DOMAIN Linking.context_vector_sizes |->
        IF cui \in DOMAIN S.cui2info /\ chance.new_name \in S.cui2info[cui].names
        THEN chance.new_name ELSE NoName]

\* Linker._train: the result is the store and the exception raised
_train(S, cfg, cui, entity, d, chance) ==
    Let(LAMBDA r :
            IF r.raised # "none" THEN r
            ELSE IF ~chance.add_negative THEN r
            ELSE train_using_negative_sampling(r.store, cfg, cui,
                                               chance.negative_sample),
        Let(LAMBDA new_name :
                train(S, cfg, cui, entity, d, FALSE, <<>>, new_name),
            NewName(S, cui, chance)))

\* The state of a linker call while it walks doc.all_ents: the store, the
\* mentions (by position in all_ents), the positions yielded so far and the
\* exception raised.
LinkState(S, ents) ==
    [store |-> S, ents |-> ents, yielded |-> <<>>, raised |-> "none"]

Yield(L, i, cui, context_similarity) ==
    [L EXCEPT !.ents[i].cui = cui,
              !.ents[i].context_similarity = context_similarity,
              !.yielded = Append(@, i)]

\* _process_entity_train, the loop over several candidates
RECURSIVE TrainCandidates(_, _, _, _, _, _)
TrainCandidates(L, cfg, d, i, cuis, chance) ==
    IF cuis = <<>> \/ L.raised # "none" THEN L
    ELSE LET cui == Head(cuis)
             name == L.ents[i].detected_name
         IN IF name \notin DOMAIN L.store.name2info
            THEN TrainCandidates(L, cfg, d, i, Tail(cuis), chance)
            ELSE IF StatusOrDefault(L.store.name2info[name].per_cui_status,
                                    cui) \notin PRIMARY_STATUS
            THEN TrainCandidates(L, cfg, d, i, Tail(cuis), chance)
            ELSE Let(LAMBDA r :
                     IF r.raised # "none"
                     THEN [L EXCEPT !.store = r.store, !.raised = r.raised]
                     ELSE Let(LAMBDA L1 : TrainCandidates(L1, cfg, d, i,
                                                          Tail(cuis), chance),
                              Yield([L EXCEPT !.store = r.store], i, cui,
                                    R(1))),
                     _train(L.store, cfg, cui, L.ents[i], d, chance))

\* _process_entity_train that trains on a single candidate whatever its
\* status for the name
ProcessEntityTrainAnyStatus(L, cfg, d, i, chance) ==
    LET entity == L.ents[i]
        name == entity.detected_name
        cuis == entity.link_candidates
    IN IF name = NoName THEN L
       ELSE IF Len(name) < cfg.disamb_length_limit THEN L
       ELSE IF Len(cuis) = 1
       THEN IF name \notin DOMAIN L.store.name2info THEN L
            ELSE Let(LAMBDA r :
                     IF r.raised # "none"
                     THEN [L EXCEPT !.store = r.store, !.raised = r.raised]
                     ELSE Yield([L EXCEPT !.store = r.store], i, cuis[1],
                                R(1)),
                     _train(L.store, cfg, cuis[1], entity, d, chance))
       ELSE TrainCandidates(L, cfg, d, i, cuis, chance)

_process_entity_train(L, cfg, d, i, chance) ==
    LET entity == L.ents[i]
        name == entity.detected_name
        cuis == entity.link_candidates
    IN IF name = NoName THEN L
       ELSE IF Len(name) < cfg.disamb_length_limit THEN L
       ELSE IF Len(cuis) = 1
       THEN IF name \notin DOMAIN L.store.name2info THEN L
            ELSE IF StatusOrDefault(L.store.name2info[name].per_cui_status,
                                    cuis[1]) = MUST_DISAMBIGATE
            THEN L
            ELSE Let(LAMBDA r :
                     IF r.raised # "none"
                     THEN [L EXCEPT !.store = r.store, !.raised = r.raised]
                     ELSE Yield([L EXCEPT !.store = r.store], i, cuis[1],
                                R(1)),
                     _train(L.store, cfg, cuis[1], entity, d, chance))
       ELSE TrainCandidates(L, cfg, d, i, cuis, chance)

\* _process_entity_nt_w_name that computes the similarity of a direct link
\* whatever always_calculate_similarity says
NtWNameAlwaysSimilarity(S, cfg, d, entity, cuis, name) ==
    IF name \notin DOMAIN S.name2info
    THEN [cui |-> "", similarity |-> R(0), raised |-> "KeyError"]
    ELSE LET name_info == S.name2info[name]
             do_disambiguate ==
                 \/ Len(name) < cfg.disamb_length_limit
                 \/ /\ Len(cuis) = 1
                    /\ StatusOrDefault(name_info.per_cui_status, cuis[1])
                           \in DO_DISAMBUGATION
                 \/ Len(cuis) > 1
         IN IF do_disambiguate
            THEN disambiguate(S, cfg, cuis, entity, name, d)
            ELSE IF cuis[1] \notin DOMAIN S.cui2info
            THEN [cui |-> "", similarity |-> R(0), raised |-> "KeyError"]
            ELSE [cui |-> cuis[1],
                  similarity |-> similarity(S, cfg, cuis[1], entity, d),
                  raised |-> "none"]

\* the result is the concept ("" for None), the similarity and the exception
_process_entity_nt_w_name(S, cfg, d, entity, cuis, name) ==
    IF name \notin DOMAIN S.name2info
    THEN [cui |-> "", similarity |-> R(0), raised |-> "KeyError"]
    ELSE LET name_info == S.name2info[name]
             do_disambiguate ==
                 \/ Len(name) < cfg.disamb_length_limit
                 \/ /\ Len(cuis) = 1
                    /\ StatusOrDefault(name_info.per_cui_status, cuis[1])
                           \in DO_DISAMBUGATION
                 \/ Len(cuis) > 1
         IN IF do_disambiguate
            THEN disambiguate(S, cfg, cuis, entity, name, d)
            ELSE IF cfg.always_calculate_similarity
            THEN IF cuis[1] \notin DOMAIN S.cui2info
                 THEN [cui |-> "", similarity |-> R(0), raised |-> "KeyError"]
                 ELSE [cui |-> cuis[1],
                       similarity |-> similarity(S, cfg, cuis[1], entity, d),
                       raised |-> "none"]
            ELSE [cui |-> cuis[1], similarity |-> R(1), raised |-> "none"]

\* _check_similarity that accepts under a threshold type it does not know
CheckSimilarityFailOpen(S, cfg, cui, context_similarity) ==
    LET th_type == cfg.similarity_threshold_type
        threshold == cfg.similarity_threshold
    IN IF th_type = "static" THEN RLeq(threshold, context_similarity)
       ELSE IF th_type = "dynamic"
       THEN RLeq(RMul(S.cui2info[cui].average_confidence, threshold),
                 context_similarity)
       ELSE TRUE

_check_similarity(S, cfg, cui, context_similarity) ==
    LET th_type == cfg.similarity_threshold_type
        threshold == cfg.similarity_threshold
    IN IF th_type = "static" THEN RLeq(threshold, context_similarity)
       ELSE IF th_type = "dynamic"
       THEN RLeq(RMul(S.cui2info[cui].average_confidence, threshold),
                 context_similarity)
       ELSE FALSE

\* the name a mention without detected name is disambiguated under
unk_unk == <<"u", "n", "k", "-", "u", "n", "k">>

_process_entity_inference(L, cfg, d, i) ==
    LET entity == L.ents[i]
        cuis == entity.link_candidates
        name == entity.detected_name
    IN IF cuis = <<>> THEN L
       ELSE
       Let(LAMBDA r :
           IF r.raised # "none" THEN [L EXCEPT !.raised = r.raised]
           ELSE IF r.cui = "" \/ ~check_filters(cfg.filters, r.cui) THEN L
           ELSE IF cfg.similarity_threshold_type = "dynamic"
                   /\ r.cui \notin DOMAIN L.store.cui2info
           THEN [L EXCEPT !.raised = "KeyError"]
           ELSE IF _check_similarity(L.store, cfg, r.cui, r.similarity)
           THEN Yield(L, i, r.cui, r.similarity)
           ELSE L,
           IF name # NoName
           THEN _process_entity_nt_w_name(L.store, cfg, d, entity, cuis, name)
           ELSE disambiguate(L.store, cfg, cuis, entity, unk_unk, d))

\* _train_on_doc and _inference: the walk over doc.all_ents from position i
RECURSIVE WalkEntities(_, _, _, _, _)
WalkEntities(L, cfg, d, i, chance) ==
    IF i > Len(d.all_ents) \/ L.raised # "none" THEN L
    ELSE Let(LAMBDA L1 : WalkEntities(L1, cfg, d, i + 1, chance),
             IF cfg.train THEN _process_entity_train(L, cfg, d, i, chance)
             ELSE _process_entity_inference(L, cfg, d, i))

\* sorted(doc.all_ents, key=lambda x: len(x.base.text), reverse=True): the
\* sort is stable, so mentions with texts of one length keep their order
RECURSIVE InsertByLength(_, _, _)
InsertByLength(d, sorted, entity) ==
    IF sorted = <<>> THEN <<entity>>
    ELSE IF Len(EntityText(d, Head(sorted))) >= Len(EntityText(d, entity))
    THEN <<Head(sorted)>> \o InsertByLength(d, Tail(sorted), entity)
    ELSE <<entity>> \o sorted

RECURSIVE SortByLength(_, _, _)
SortByLength(d, ents, sorted) ==
    IF ents = <<>> THEN sorted
    ELSE Let(LAMBDA sorted1 : SortByLength(d, Tail(ents), sorted1),
             InsertByLength(d, sorted, Head(ents)))

\* create_main_ann, the loop: a mention is kept when none of its tokens is
\* in a mention kept before it
RECURSIVE KeepLongest(_, _, _)
KeepLongest(ents, tkns_in, main_anns) ==
    IF ents = <<>> THEN main_anns
    ELSE LET ent == Head(ents)
         IN IF EntityTokens(ent) \cap tkns_in = {}
            THEN KeepLongest(Tail(ents), tkns_in \cup EntityTokens(ent),
                             Append(main_anns, ent))
            ELSE KeepLongest(Tail(ents), tkns_in, main_anns)

\* create_main_ann that keeps every mention, overlapping or not
CreateMainAnnKeepAll(d) ==
    Let(LAMBDA sorted :
            [d EXCEPT !.all_ents = sorted, !.final_ents = @ \o sorted],
        SortByLength(d, d.all_ents, <<>>))

create_main_ann(d) ==
    Let(LAMBDA sorted :
            [d EXCEPT !.all_ents = sorted,
                      !.final_ents = @ \o KeepLongest(sorted, {}, <<>>)],
        SortByLength(d, d.all_ents, <<>>))

\* Linker.__call__ that takes the training path whatever config.train says
LinkerCallTraining(S, cfg, d, chance) ==
    LET d0 == [d EXCEPT !.final_ents = <<>>]
    IN Let(LAMBDA L :
               IF L.raised # "none"
               THEN [store |-> L.store, doc |-> d0, raised |-> L.raised]
               ELSE Let(LAMBDA le :
                            [store |-> L.store,
                             doc |-> create_main_ann(
                                         [d0 EXCEPT !.all_ents = le]),
                             raised |-> "none"],
                        [k \in DOMAIN L.yielded |-> L.ents[L.yielded[k]]]),
           WalkEntities(LinkState(S, d.all_ents), [cfg EXCEPT !.train = TRUE],
                        d0, 1, chance))

\* Linker.__call__: the result is the store, the document and the exception
LinkerCall(S, cfg, d, chance) ==
    LET d0 == [d EXCEPT !.final_ents = <<>>]
    IN Let(LAMBDA L :
               IF L.raised # "none"
               THEN [store |-> L.store, doc |-> d0, raised |-> L.raised]
               ELSE Let(LAMBDA le :
                            [store |-> L.store,
                             doc |-> create_main_ann(
                                         [d0 EXCEPT !.all_ents = le]),
                             raised |-> "none"],
                        [k \in DOMAIN L.yielded |-> L.ents[L.yielded[k]]]),
           WalkEntities(LinkState(S, d.all_ents), cfg, d0, 1, chance))

\* ------------------------------------------------------- linker inputs
wa == <<"a">>
wb == <<"b">>
wx == <<"x">>
wz == <<"z">>
name_a == NameList[1]
name_a_b == NameList[2]

\* the documents the pipeline is run on, as the tokenizer and the name
\* matcher hand them to the linker
DocList ==
    << [tokens |-> <<wa, wa, wb>>, final_ents |-> <<>>,
        all_ents |-> << Entity(1, 2, 3, name_a_b, <<"c1">>) >>],
       [tokens |-> <<wx, wa, wb>>, final_ents |-> <<>>,
        all_ents |-> << Entity(1, 2, 3, name_a_b, <<"c2", "c1">>) >>],
       [tokens |-> <<wa, wa, wb>>, final_ents |-> <<>>,
        all_ents |-> << Entity(1, 2, 1, name_a_b, <<"c1">>),
                        Entity(2, 2, 3, name_a_b, <<"c2">>) >>],
       [tokens |-> <<wa, wa, wb>>, final_ents |-> <<>>,
        all_ents |-> << Entity(1, 2, 2, name_a, <<"c1">>),
                        Entity(2, 2, 3, name_a_b, <<"c1", "c2">>) >>],
       [tokens |-> <<wa, wa, wb>>, final_ents |-> <<>>,
        all_ents |-> << Entity(1, 1, 1, NoName, <<"c1", "c2">>) >>],
       [tokens |-> <<wx, wz, wa, wb>>, final_ents |-> <<>>,
        all_ents |-> << Entity(1, 3, 4, name_a_b, <<"c1">>),
                        Entity(2, 1, 1, name_a, <<>>) >>],
       [tokens |-> <<wz, wz, wx>>, final_ents |-> <<>>,
        all_ents |-> << Entity(1, 1, 1, name_a_b, <<"c2">>) >>] >>

DOCS == {DocList[i] : i \in 1..(IF NumDocs < Len(DocList) THEN NumDocs ELSE Len(DocList))}

\* the documents used for calls in training
TRAIN_DOCS == {DocList[i] : i \in 1..(IF NumTrainDocs < Len(DocList) THEN NumTrainDocs ELSE Len(DocList))}

\* the store before any call
EmptyStore ==
    [cui2info |-> EmptyDict, name2info |-> EmptyDict,
     type_id2info |-> EmptyDict, token_counts |-> EmptyDict,
     _subnames |-> {}, is_dirty |-> FALSE, has_changed_names |-> FALSE,
     vector_dicts |-> <<>>, vocab |-> EmptyVocab]

\* the concept database the linker is constructed with: c1 has the names
\* "a" and "a~b" with status s1, c2 has the name "a~b" with status s2
LinkStore(s1, s2) ==
    Let(LAMBDA S1 : _add_concept(S1, "c2", <<name_a_b>>, {}, s2, {}, "", FALSE),
        _add_concept([EmptyStore EXCEPT !.vocab = LinkerVocab(TRUE)], "c1",
                     <<name_a, name_a_b>>, {}, s1, {}, "", FALSE))

LinkStatuses ==
    {<<PRIMARY_STATUS_NO_DISAMB, AUTOMATIC>>,
     <<PRIMARY_STATUS_NO_DISAMB, PRIMARY_STATUS_NO_DISAMB>>,
     <<AUTOMATIC, MUST_DISAMBIGATE>>}

\* the same database after c1 was trained once on the first document
TrainedStore(S, cfg) ==
    train(S, cfg, "c1", DocList[1].all_ents[1], DocList[1], FALSE, <<>>,
          KeepCenter).store

NoFilters == [cuis |-> {}, cuis_exclude |-> {}]

LinkConfigs ==
    {[Linking EXCEPT !.train = t, !.similarity_threshold_type = ty,
                     !.similarity_threshold = th,
                     !.always_calculate_similarity = al, !.filters = f] :
        t \in BOOLEAN, ty \in {"static", "dynamic", "other"},
        th \in {R(-1), Rat(1, 4), R(1)}, al \in BOOLEAN,
        f \in {NoFilters, [cuis |-> {}, cuis_exclude |-> {"c2"}]}}

TrainConfigs ==
    {[Linking EXCEPT !.calculate_dynamic_threshold = dy] : dy \in BOOLEAN}

\* the random draws of a call in training mode
TrainChances ==
    {NoChance,
     [NoChance EXCEPT !.new_name = name_a],
     [NoChance EXCEPT !.add_negative = TRUE,
                      !.negative_sample =
                          [ct \in {"long", "short"} |->
                              IF ct = "long" THEN Rat(-2, 3) ELSE R(1)]]}

\* ------------------------------------------------------- calls
\* the names dicts a call may pass: keys in insertion order, no key twice
NameDicts ==
    {<<>>} \cup {<<n>> : n \in NAMES}
    \cup (IF MaxNamesPerCall >= 2
          THEN {<<n, m>> : <<n, m>> \in {p \in NAMES \X NAMES : p[1] # p[2]}}
          ELSE {})

\* (type_ids, ontologies, description, full_build) of a call
CoreArgs ==
    {[type_ids |-> {}, ontologies |-> {}, description |-> "",
      full_build |-> FALSE]}

BuildArgs ==
    {[type_ids |-> {}, ontologies |-> {}, description |-> "",
      full_build |-> FALSE],
     [type_ids |-> TYPE_IDS, ontologies |-> {}, description |-> "",
      full_build |-> FALSE],
     [type_ids |-> TYPE_IDS, ontologies |-> {"O1"}, description |-> "d",
      full_build |-> TRUE]}

\* str.upper() on the status strings passed to add_names
Upper(status) ==
    IF status = "p" THEN "P"
    ELSE IF status = "a" THEN "A"
    ELSE IF status = "n" THEN "N"
    ELSE status

NoArgs ==
    [op |-> "init", cui |-> "", names |-> <<>>, name_status |-> "",
     args |-> {}, rm_names |-> {}, cuis_to_keep |-> {}, name |-> <<>>,
     doc |-> NoDoc, entity |-> 0, negative |-> FALSE, chance |-> NoChance,
     config |-> Linking, chosen |-> "", similarity |-> R(0),
     other |-> <<>>]

Op(op) == [NoArgs EXCEPT !.op = op]

NextPhase(op) ==
    IF op \in {"has_subname", "ner", "ner_init"} THEN phase
    ELSE IF op \in {"add_concept", "add_names"}
    THEN (IF phase = "built" THEN "built" ELSE "mixed")
    ELSE IF op = "filter_by_cui"
    THEN (IF phase = "built" THEN "filtered"
          ELSE IF phase = "filtered" /\ lastOp.op = "filter_by_cui"
          THEN "filtered2" ELSE "mixed")
    ELSE "mixed"

\* bookkeeping common to every call
Called(call, exc) ==
    /\ steps' = steps + 1
    /\ lastOp' = call
    /\ raised' = exc
    /\ pre' = Store
    /\ repeated' = (call = lastOp)
    /\ phase' = NextPhase(call.op)

Init ==
    /\ cui2info = EmptyDict
    /\ name2info = EmptyDict
    /\ type_id2info = EmptyDict
    /\ token_counts = EmptyDict
    /\ _subnames = {}
    /\ is_dirty = FALSE
    /\ has_changed_names = FALSE
    /\ vector_dicts = <<>>
    /\ vocab = EmptyVocab
    /\ config = Linking
    /\ doc = NoDoc
    /\ automaton = {}
    /\ lastOp = NoArgs
    /\ raised = "none"
    /\ pre = Store
    /\ repeated = FALSE
    /\ phase = "built"
    /\ steps = 0

AddConcept(ArgSet) ==
    \E cui \in CUIS, names \in NameDicts, name_status \in ALLOWED_STATUS,
       a \in ArgSet :
        /\ SetStore(_add_concept(Store, cui, names, a.ontologies, name_status,
                                 a.type_ids, a.description, a.full_build))
        /\ Called([Op("add_concept") EXCEPT !.cui = cui, !.names = names,
                      !.name_status = name_status, !.args = {a}], "none")
        /\ UNCHANGED automaton

AddNames ==
    \E cui \in CUIS, names \in NameDicts, name_status \in {"p", "X"},
       full_build \in BOOLEAN :
        /\ SetStore(add_names(Store, cui, names, Upper(name_status),
                              full_build))
        /\ Called([Op("add_names") EXCEPT !.cui = cui, !.names = names,
                      !.name_status = name_status,
                      !.args = {[full_build |-> full_build]}], "none")
        /\ UNCHANGED automaton

RemoveNames ==
    \E cui \in CUIS, names \in SUBSET NAMES :
        /\ SetStore(_remove_names(Store, cui, names))
        /\ Called([Op("remove_names") EXCEPT !.cui = cui,
                      !.rm_names = names], "none")
        /\ UNCHANGED automaton

FilterByCui ==
    \E cuis_to_keep \in SUBSET CUIS :
        LET r == filter_by_cui(Store, cuis_to_keep)
        IN /\ SetStore(r.store)
           /\ Called([Op("filter_by_cui") EXCEPT
                         !.cuis_to_keep = cuis_to_keep], r.raised)
           /\ UNCHANGED automaton

HasSubname ==
    \E name \in UNION {NameDescriptor(n).snames : n \in NAMES} :
        /\ SetStore(has_subname(Store, name))
        /\ Called([Op("has_subname") EXCEPT !.name = name], "none")
        /\ UNCHANGED automaton

\* NER.__init__: a name matcher is constructed over the store
NerInit ==
    /\ automaton' = _rebuild_automaton(name2info)
    /\ Called(Op("ner_init"), "none")
    /\ UNCHANGED storeVars

\* NER.__call__ on a document, up to the scan of the text
NerCall ==
    /\ IF has_changed_names
       THEN /\ SetStore(_undirty(Store))
            /\ automaton' = _rebuild_automaton(name2info)
       ELSE UNCHANGED <<storeVars, automaton>>
    /\ Called(Op("ner"), "none")

Next ==
    /\ steps < MaxSteps
    /\ \/ AddConcept(CoreArgs)
       \/ RemoveNames
       \/ FilterByCui
       \/ HasSubname
       \/ NerInit
       \/ NerCall
    /\ UNCHANGED <<config, doc>>

Spec == Init /\ [][Next]_vars

\* the concept ingestion calls with all their arguments
NextBuild ==
    /\ steps < MaxBuildSteps
    /\ \/ AddConcept(BuildArgs)
       \/ AddNames
       \/ RemoveNames
    /\ UNCHANGED <<config, doc>>

SpecBuild == Init /\ [][NextBuild]_vars

\* ------------------------------------------------------- subname cache
\* the calls that touch the subname cache, one name per call
CACHE_NAMES == {NameList[i] : i \in 1..(IF NumCacheNames < Len(NameList) THEN NumCacheNames ELSE Len(NameList))}

AddConceptOneName ==
    \E cui \in CUIS, name \in CACHE_NAMES :
        /\ SetStore(_add_concept(Store, cui, <<name>>, {}, AUTOMATIC, {}, "",
                                 FALSE))
        /\ Called([Op("add_concept") EXCEPT !.cui = cui, !.names = <<name>>,
                      !.name_status = AUTOMATIC], "none")
        /\ UNCHANGED automaton

RemoveOneName ==
    \E cui \in CUIS, name \in CACHE_NAMES :
        /\ SetStore(_remove_names(Store, cui, {name}))
        /\ Called([Op("remove_names") EXCEPT !.cui = cui,
                      !.rm_names = {name}], "none")
        /\ UNCHANGED automaton

ResetTraining ==
    /\ SetStore(reset_training(Store))
    /\ Called(Op("reset_training"), "none")
    /\ UNCHANGED automaton

HasSubnameOfCacheNames ==
    \E name \in UNION {NameDescriptor(n).snames : n \in CACHE_NAMES} :
        /\ SetStore(has_subname(Store, name))
        /\ Called([Op("has_subname") EXCEPT !.name = name], "none")
        /\ UNCHANGED automaton

NextCache ==
    /\ steps < MaxCacheSteps
    /\ \/ AddConceptOneName
       \/ RemoveOneName
       \/ FilterByCui
       \/ ResetTraining
       \/ HasSubnameOfCacheNames
    /\ UNCHANGED <<config, doc>>

SpecCache == Init /\ [][NextCache]_vars

\* ------------------------------------------------------- linker calls
StoreIs(S) ==
    /\ cui2info = S.cui2info
    /\ name2info = S.name2info
    /\ type_id2info = S.type_id2info
    /\ token_counts = S.token_counts
    /\ _subnames = S._subnames
    /\ is_dirty = S.is_dirty
    /\ has_changed_names = S.has_changed_names
    /\ vector_dicts = S.vector_dicts
    /\ vocab = S.vocab

\* a linker is constructed over a concept database, untrained or trained
\* (with the dynamic threshold kept up to date when the config relies on it)
InitLink(Configs) ==
    \E cfg \in Configs, st \in LinkStatuses, trained \in BOOLEAN :
        LET train_cfg == [cfg EXCEPT !.calculate_dynamic_threshold =
                             @ \/ cfg.similarity_threshold_type = "dynamic"]
        IN \E S1 \in {Let(LAMBDA S0 : IF trained
                                      THEN TrainedStore(S0, train_cfg)
                                      ELSE S0,
                          LinkStore(st[1], st[2]))} :
           /\ StoreIs(S1)
           /\ config = cfg
           /\ doc = NoDoc
           /\ automaton = _rebuild_automaton(S1.name2info)
           /\ lastOp = NoArgs
           /\ raised = "none"
           /\ pre = S1
           /\ repeated = FALSE
           /\ phase = "built"
           /\ steps = 0

\* _ensure_not_training that leaves the setting alone
KeepTraining(cfg) == cfg

\* CAT._ensure_not_training
_ensure_not_training(cfg) ==
    IF cfg.train THEN [cfg EXCEPT !.train = FALSE] ELSE cfg

\* Linker.__call__ on a document
Link(Docs, Chances) ==
    \E d \in Docs, chance \in (IF config.train THEN Chances ELSE {NoChance}) :
        LET r == LinkerCall(Store, config, d, chance)
        IN /\ SetStore(r.store)
           /\ doc' = r.doc
           /\ Called([Op("linker") EXCEPT !.doc = d, !.chance = chance,
                         !.config = config], r.raised)
           /\ UNCHANGED <<config, automaton>>

\* CAT.get_entities: the pipeline runs the name matcher and then the linker
GetEntities ==
    \E d \in DOCS :
        LET cfg == _ensure_not_training(config)
            S1 == IF has_changed_names THEN _undirty(Store) ELSE Store
            r == LinkerCall(S1, cfg, d, NoChance)
        IN /\ config' = cfg
           /\ automaton' = IF has_changed_names
                           THEN _rebuild_automaton(name2info) ELSE automaton
           /\ SetStore(r.store)
           /\ doc' = r.doc
           /\ Called([Op("get_entities") EXCEPT !.doc = d, !.config = config],
                     r.raised)

\* ContextModel.train on a mention of a document
TrainOn(Docs) ==
    \E cui \in CUIS, d \in Docs, negative \in BOOLEAN, new_name \in {NoName, name_a}, names \in {<<>>, <<name_a_b>>} :
      \E i \in DOMAIN d.all_ents :
        LET chance == [NoChance EXCEPT !.new_name = new_name]
            r == train(Store, config, cui, d.all_ents[i], d, negative, names,
                       NewName(Store, cui, chance))
        IN /\ negative \/ names = <<>>
           /\ SetStore(r.store)
           /\ Called([Op("train") EXCEPT !.cui = cui, !.doc = d,
                         !.entity = i, !.negative = negative,
                         !.names = names, !.chance = chance,
                         !.config = config], r.raised)
           /\ UNCHANGED <<config, doc, automaton>>

Train == TrainOn(TRAIN_DOCS)

NextLink ==
    /\ steps < MaxLinkSteps
    /\ \/ Link(DOCS, {NoChance})
       \/ GetEntities

InitLinker == InitLink(LinkConfigs)

SpecLink == InitLinker /\ [][NextLink]_vars

NextTrain ==
    /\ steps < MaxTrainSteps
    /\ \/ Train
       \/ Link(TRAIN_DOCS, TrainChances)
       \/ ResetTraining /\ UNCHANGED <<config, doc>>

InitTrainer == InitLink(TrainConfigs)

SpecTrain == InitTrainer /\ [][NextTrain]_vars

\* ------------------------------------------------------- disambiguation calls
\* count_train of a concept when disambiguate is called
TrainCounts == {0, 1, 100, 1000}

\* the database after n1 positive train calls for c1 on the mention of the
\* first document and n2 for c2 on the second mention of the second one.
\* A repeated call on the same mention finds similarity 1 and so leaves
\* the vectors as the first call stored them: only the count grows.
DisambStore(S, cfg, n1, n2) ==
    Let(LAMBDA S1 :
    Let(LAMBDA S2 :
        [S2 EXCEPT !.cui2info["c1"].count_train = n1,
                   !.cui2info["c2"].count_train = n2,
                   !.name2info[name_a_b].count_train = n1 + n2],
        IF n2 = 0 THEN S1
        ELSE train(S1, cfg, "c2", DocList[2].all_ents[1], DocList[2], FALSE,
                   <<>>, KeepCenter).store),
        IF n1 = 0 THEN S
        ELSE train(S, cfg, "c1", DocList[1].all_ents[1], DocList[1], FALSE,
                   <<>>, KeepCenter).store)

DisambConfigs ==
    {[Linking EXCEPT !.train = FALSE, !.prefer_primary_name = pp,
                     !.prefer_frequent_concepts = pf] :
        pp \in {R(0), Rat(35, 100)}, pf \in {R(0), Rat(35, 100)}}

InitDisamb ==
    \E cfg \in DisambConfigs, st \in LinkStatuses, n1 \in TrainCounts, n2 \in TrainCounts :
      \E S1 \in {Let(LAMBDA S0 : DisambStore(S0, cfg, n1, n2),
                      LinkStore(st[1], st[2]))} :
           /\ StoreIs(S1)
           /\ config = cfg
           /\ doc = NoDoc
           /\ automaton = _rebuild_automaton(S1.name2info)
           /\ lastOp = NoArgs
           /\ raised = "none"
           /\ pre = S1
           /\ repeated = FALSE
           /\ phase = "built"
           /\ steps = 0

\* ContextModel.disambiguate on a mention of a document, under the detected
\* name or, without one, under 'unk-unk' as the linker calls it
Disambiguate ==
    \E d \in Range(DocList) :
      \E i \in DOMAIN d.all_ents :
        LET entity == d.all_ents[i]
            name == IF entity.detected_name = NoName THEN unk_unk
                    ELSE entity.detected_name
            r == disambiguate(Store, config, entity.link_candidates, entity,
                              name, d)
        IN /\ Called([Op("disambiguate") EXCEPT !.doc = d, !.entity = i,
                         !.name = name, !.config = config,
                         !.chosen = r.cui, !.similarity = r.similarity],
                     r.raised)
           /\ UNCHANGED <<storeVars, config, doc, automaton>>

NextDisamb ==
    /\ steps < MaxDisambSteps
    /\ Disambiguate

SpecDisamb == InitDisamb /\ [][NextDisamb]_vars

\* ------------------------------------------------------- context vector calls
\* the documents of the calls: the mention of the last one has no word with
\* a vector in its short window
VectorDocs == {DocList[1], DocList[2], DocList[7]}

\* the averaged negative samples of a call, for every window label
NegativeSamples ==
    {[ct \in {"long", "short"} |-> IF ct = "long" THEN Rat(-2, 3) ELSE R(1)],
     [ct \in {"long", "short"} |-> R(1)]}

VectorConfigs ==
    {[Linking EXCEPT !.devalue_linked_concepts = dv] : dv \in BOOLEAN}

\* an untrained concept database and a vocabulary whose unigram table was
\* made or not
InitVectors ==
    \E cfg \in VectorConfigs, st \in LinkStatuses, table_made \in BOOLEAN :
      \E S1 \in {[LinkStore(st[1], st[2]) EXCEPT
                      !.vocab = LinkerVocab(table_made)]} :
           /\ StoreIs(S1)
           /\ config = cfg
           /\ doc = NoDoc
           /\ automaton = _rebuild_automaton(S1.name2info)
           /\ lastOp = NoArgs
           /\ raised = "none"
           /\ pre = S1
           /\ repeated = FALSE
           /\ phase = "built"
           /\ steps = 0

\* ContextModel.train_using_negative_sampling
TrainUsingNegativeSampling ==
    \E cui \in CUIS, vectors \in NegativeSamples :
      \E r \in {train_using_negative_sampling(Store, config, cui, vectors)} :
           /\ SetStore(r.store)
           /\ Called([Op("train_using_negative_sampling") EXCEPT
                         !.cui = cui, !.negative = TRUE,
                         !.chance = [NoChance EXCEPT
                                        !.add_negative = TRUE,
                                        !.negative_sample = vectors],
                         !.config = config], r.raised)
           /\ UNCHANGED <<config, doc, automaton>>

NextVectors ==
    /\ steps < MaxVectorSteps
    /\ \/ TrainOn(VectorDocs)
       \/ TrainUsingNegativeSampling
       \/ Link(Range(DocList), TrainChances)

SpecVectors == InitVectors /\ [][NextVectors]_vars

\* ------------------------------------------------------- name status calls
\* ContextModel.train with negative = true and a list of names, on the
\* mention of the first document
TrainNegative ==
    \E cui \in CUIS, names \in NameDicts :
      \E r \in {train(Store, config, cui, DocList[1].all_ents[1], DocList[1],
                      TRUE, names, KeepCenter)} :
           /\ SetStore(r.store)
           /\ Called([Op("train") EXCEPT !.cui = cui, !.doc = DocList[1],
                         !.entity = 1, !.negative = TRUE, !.names = names,
                         !.config = config], r.raised)
           /\ UNCHANGED <<config, doc, automaton>>

NextStatus ==
    /\ steps < MaxStatusSteps
    /\ \/ AddConcept(CoreArgs) /\ UNCHANGED <<config, doc>>
       \/ RemoveNames /\ UNCHANGED <<config, doc>>
       \/ TrainNegative

InitStatus == InitLink({Linking})

SpecStatus == InitStatus /\ [][NextStatus]_vars

\* ------------------------------------------------------- vocabulary calls
WordList == << <<"a">>, <<"b">>, <<"x">> >>
WORDS == {WordList[i] : i \in 1..(IF NumWords < Len(WordList) THEN NumWords ELSE Len(WordList))}
WordCounts == {1, 2}
WordVectors == {None, Some(R(1))}

\* bookkeeping of a call on the vocabulary: the database is left alone
VocabCalled(op, word, V, exc) ==
    /\ SetStore([Store EXCEPT !.vocab = V])
    /\ Called([Op(op) EXCEPT !.name = word], exc)
    /\ UNCHANGED <<config, doc, automaton>>

AddWord ==
    \E word \in WORDS, cnt \in WordCounts, vec \in WordVectors, replace \in BOOLEAN :
        VocabCalled("add_word", word, add_word(vocab, word, cnt, vec, replace),
                    "none")

IncOrAdd ==
    \E word \in WORDS, vec \in WordVectors :
        VocabCalled("inc_or_add", word, inc_or_add(vocab, word, 1, vec),
                    "none")

AddVec ==
    \E word \in WORDS :
      \E r \in {add_vec(vocab, word, R(1))} :
        VocabCalled("add_vec", word, r.vocab, r.raised)

RemoveAllVectors ==
    VocabCalled("remove_all_vectors", <<>>, remove_all_vectors(vocab), "none")

RemoveWordsBelowCnt ==
    VocabCalled("remove_words_below_cnt", <<>>,
                remove_words_below_cnt(vocab, 2), "none")

MakeUnigramTable ==
    VocabCalled("make_unigram_table", <<>>, make_unigram_table(vocab), "none")

NextVocab ==
    /\ steps < MaxVocabSteps
    /\ \/ AddWord
       \/ IncOrAdd
       \/ AddVec
       \/ RemoveAllVectors
       \/ RemoveWordsBelowCnt
       \/ MakeUnigramTable

SpecVocab == Init /\ [][NextVocab]_vars

\* ------------------------------------------------------- config merging
\* the values of a model dump: strings, integers (written as digits) and
\* dicts, whose items are kept in insertion order
StrValue(v) == [kind |-> "str", v |-> v, items |-> <<>>]
IntValue(v) == [kind |-> "int", v |-> v, items |-> <<>>]
DictValue(items) == [kind |-> "dict", v |-> "", items |-> items]
Item(k, v) == [k |-> k, v |-> v]

\* a config object: its class and the values of its attributes
ConfigModel(cls, values) == [kind |-> "model", cls |-> cls, values |-> values]

\* Config() with its defaults, cut down to the general section: the sub-config
\* nlp, a string field and an integer field of General
NewConfig ==
    ConfigModel("Config",
        "general" :> ConfigModel("General",
            ("nlp" :> ConfigModel("NLPConfig",
                          ("provider" :> StrValue("regex"))
                          @@ ("modelname" :> StrValue("en_core_web_md"))))
            @@ ("separator" :> StrValue("~"))
            @@ ("log_level" :> IntValue("20"))))

\* the declared fields of a class and their types
FieldTypes(cls) ==
    CASE cls = "Config" -> ("general" :> "model")
      [] cls = "General" -> ("nlp" :> "model") @@ ("separator" :> "str")
                            @@ ("log_level" :> "int")
      [] cls = "NLPConfig" -> ("provider" :> "str") @@ ("modelname" :> "str")

\* class Config of NLPConfig: extra = 'allow', validate_assignment = True;
\* the other classes declare neither
AllowsExtra(cls) == cls = "NLPConfig"
ValidatesAssignment(cls) == cls = "NLPConfig"

\* setattr(self, k, v) on a config object: an attribute that is no field is
\* refused with ValueError unless the class allows extras; a field is
\* validated against its type only when the class validates assignment
setattr(self, k, v) ==
    IF k \in DOMAIN FieldTypes(self.cls)
    THEN IF ValidatesAssignment(self.cls) /\ v.kind # FieldTypes(self.cls)[k]
         THEN [model |-> self, raised |-> "ValidationError"]
         ELSE [model |-> [self EXCEPT !.values = Put(@, k, v)],
               raised |-> "none"]
    ELSE IF AllowsExtra(self.cls)
    THEN [model |-> [self EXCEPT !.values = Put(@, k, v)], raised |-> "none"]
    ELSE [model |-> self, raised |-> "ValueError"]

\* merge_config: the loop over other.items().  The result is the config
\* object, changed in place up to the item that raised, and the exception.
RECURSIVE merge_config(_, _)
merge_config(self, items) ==
    IF items = <<>> THEN [model |-> self, raised |-> "none"]
    ELSE LET k == Head(items).k
             v == Head(items).v
             set == setattr(self, k, v)
         IN IF k \notin DOMAIN self.values
            THEN IF set.raised \in {"ValidationError", "ValueError"}
                 THEN [model |-> self, raised |-> "IncorrectConfigValues"]
                 ELSE merge_config(set.model, Tail(items))
            ELSE IF self.values[k].kind = "model"
            THEN IF v.kind # "dict"
                 THEN [model |-> self, raised |-> "IncorrectConfigValues"]
                 ELSE LET sub == merge_config(self.values[k], v.items)
                          self1 == [self EXCEPT !.values[k] = sub.model]
                      IN IF sub.raised # "none"
                         THEN [model |-> self1, raised |-> sub.raised]
                         ELSE merge_config(self1, Tail(items))
            ELSE IF set.raised = "ValidationError"
            THEN [model |-> self, raised |-> "IncorrectConfigValues"]
            ELSE IF set.raised # "none"
            THEN [model |-> self, raised |-> set.raised]
            ELSE merge_config(set.model, Tail(items))

\* partial model dumps: one value at the end of a path, or two values in
\* the general section
DumpValues == {StrValue("x"), IntValue("1"), DictValue(<<>>)}

DumpPaths ==
    {<<"general">>, <<"general", "nlp">>, <<"general", "separator">>,
     <<"general", "nlp", "provider">>,
     <<"general", "nlp", "this_key_is_new_woo">>,
     <<"general", "this_key_is_new_woo">>, <<"this_key_is_new_woo">>}

RECURSIVE Nest(_, _)
Nest(path, v) ==
    IF path = <<>> THEN v
    ELSE DictValue(<<Item(Head(path), Nest(Tail(path), v))>>)

PartialDumps ==
    {Nest(path, v) : path \in DumpPaths, v \in DumpValues}
    \cup {DictValue(<<Item("general", DictValue(<<Item("separator", v1), Item("nlp", DictValue(<<Item("provider", v2)>>))>>))>>) : v1 \in DumpValues, v2 \in DumpValues}

InitConfig ==
    /\ StoreIs(EmptyStore)
    /\ config = NewConfig
    /\ doc = NoDoc
    /\ automaton = _rebuild_automaton(EmptyDict)
    /\ lastOp = NoArgs
    /\ raised = "none"
    /\ pre = EmptyStore
    /\ repeated = FALSE
    /\ phase = "built"
    /\ steps = 0

\* cnf.merge_config(other)
MergeConfig ==
    \E other \in PartialDumps :
        LET r == merge_config(config, other.items)
        IN /\ config' = r.model
           /\ Called([Op("merge_config") EXCEPT !.other = other,
                         !.config = config], r.raised)
           /\ UNCHANGED <<storeVars, doc, automaton>>

NextConfig ==
    /\ steps < MaxMergeSteps
    /\ MergeConfig

SpecConfig == InitConfig /\ [][NextConfig]_vars

\* ======================================================= claims
StatusOf(n2i, name, cui) == n2i[name].per_cui_status[cui]
HasPair(n2i, name, cui) ==
    name \in DOMAIN n2i /\ cui \in DOMAIN n2i[name].per_cui_status

\* C1: filter_by_cui(keep) completes without raising, for every keep and in
\* every store reached by add_concept, remove_names and filter_by_cui calls.
C1_FilterNeverRaises ==
    lastOp.op = "filter_by_cui" => raised = "none"

\* C2: on a store built by add_concept calls, filter_by_cui(keep) followed by
\* filter_by_cui(K2), K2 the concept ids the first call left, leaves cui2info
\* and name2info as they were after the first call.
C2_FilterTwiceIsNoOp ==
    (/\ lastOp.op = "filter_by_cui"
     /\ phase = "filtered2"
     /\ lastOp.cuis_to_keep = DOMAIN pre.cui2info)
    => /\ raised = "none"
       /\ cui2info = pre.cui2info
       /\ name2info = pre.name2info

\* C3: after filter_by_cui(keep) on a store built only by add_concept calls
\* the name records kept are exactly the names of the concepts of keep that
\* are in the store, the concept records kept are exactly the concepts with
\* a status entry under one of those names, and the kept records are the
\* ones the store had.
KeptNames == UNION {pre.cui2info[c].names :
                       c \in lastOp.cuis_to_keep \cap DOMAIN pre.cui2info}
KeptCuis == {c \in DOMAIN pre.cui2info :
                \E n \in KeptNames : HasPair(pre.name2info, n, c)}

C3_FilterKeepsTwoHopClosure ==
    (lastOp.op = "filter_by_cui" /\ phase = "filtered")
    => /\ raised = "none"
       /\ DOMAIN name2info = KeptNames
       /\ DOMAIN cui2info = KeptCuis
       /\ \A n \in DOMAIN name2info : name2info[n] = pre.name2info[n]
       /\ \A c \in DOMAIN cui2info : cui2info[c] = pre.cui2info[c]

\* the second hop keeps a concept that was not asked for, and another
\* concept is dropped
C3_Witness ==
    /\ lastOp.op = "filter_by_cui" /\ phase = "filtered"
    /\ \E c \in DOMAIN cui2info : c \notin lastOp.cuis_to_keep
    /\ DOMAIN name2info # DOMAIN pre.name2info
    /\ DOMAIN name2info # {}

\* C4: every name in the names set of a concept of cui2info is a key of
\* name2info.
C4_NamesHaveNameInfo ==
    \A c \in DOMAIN cui2info : cui2info[c].names \subseteq DOMAIN name2info

\* C5: at a name matcher call the patterns of the automaton are the names of
\* name2info with separators replaced by spaces, whatever add_concept,
\* remove_names, filter_by_cui and has_subname calls came since the build.
C5_AutomatonFollowsStore ==
    lastOp.op = "ner"
    => automaton = {clean_name(name) : name \in DOMAIN name2info}

\* C6: after remove_names(cui, names), for each listed name that was in
\* name2info: cui is no key of its per_cui_status; its record is deleted
\* exactly when no concept remains under it; when exactly one concept
\* remains, that concept's status is N if it was A, PD if it was P and
\* unchanged otherwise. The call sets has_changed_names.
RemainingCuis(name) ==
    (DOMAIN pre.name2info[name].per_cui_status) \ {lastOp.cui}

C6_RemoveNamesEffect ==
    lastOp.op = "remove_names"
    => /\ has_changed_names
       /\ \A name \in lastOp.rm_names \cap DOMAIN pre.name2info :
            /\ ~HasPair(name2info, name, lastOp.cui)
            /\ (name \notin DOMAIN name2info) <=> (RemainingCuis(name) = {})
            /\ name \in DOMAIN name2info
               => DOMAIN name2info[name].per_cui_status = RemainingCuis(name)
            /\ Cardinality(RemainingCuis(name)) = 1
               => \A c \in RemainingCuis(name) :
                    LET old == StatusOf(pre.name2info, name, c)
                        new == StatusOf(name2info, name, c)
                    IN new = (IF old = "A" THEN "N"
                              ELSE IF old = "P" THEN "PD" ELSE old)

\* a pair was removed and the one concept left under the name was tightened
C6_Witness ==
    /\ lastOp.op = "remove_names"
    /\ \E name \in lastOp.rm_names \cap DOMAIN pre.name2info :
         /\ HasPair(pre.name2info, name, lastOp.cui)
         /\ \E c \in RemainingCuis(name) :
              /\ RemainingCuis(name) = {c}
              /\ StatusOf(pre.name2info, name, c) = "P"
              /\ StatusOf(name2info, name, c) = "PD"
    /\ \E name \in lastOp.rm_names \cap DOMAIN pre.name2info :
         name \notin DOMAIN name2info

\* C7: a remove_names call changes the status of a pair that stays in the
\* store only from A to N or from P to PD, never from N to A or PD to P.
C7_TighteningIsMonotonic ==
    lastOp.op = "remove_names"
    => \A name \in DOMAIN name2info \cap DOMAIN pre.name2info :
         \A c \in DOMAIN name2info[name].per_cui_status :
            HasPair(pre.name2info, name, c)
            => LET old == StatusOf(pre.name2info, name, c)
                   new == StatusOf(name2info, name, c)
               IN \/ new = old
                  \/ old = "A" /\ new = "N"
                  \/ old = "P" /\ new = "PD"

\* a remove_names call meets a pair that an earlier call tightened to PD,
\* alone under its name, and the pair stays PD
C7_Witness ==
    /\ lastOp.op = "remove_names"
    /\ \E name \in DOMAIN name2info \cap DOMAIN pre.name2info :
         \E c \in DOMAIN name2info[name].per_cui_status :
            /\ DOMAIN name2info[name].per_cui_status = {c}
            /\ HasPair(pre.name2info, name, c)
            /\ StatusOf(pre.name2info, name, c) = "PD"
            /\ StatusOf(name2info, name, c) = "PD"

\* C8: after add_concept(cui, names, status) with a non-empty names map every
\* listed name has a status entry for cui: status when the pair had no entry
\* before or when status is P, the entry it had before otherwise.
C8_AddConceptStatus ==
    (lastOp.op = "add_concept" /\ lastOp.names # <<>>)
    => \A name \in Range(lastOp.names) :
         /\ HasPair(name2info, name, lastOp.cui)
         /\ StatusOf(name2info, name, lastOp.cui) =
              (IF ~HasPair(pre.name2info, name, lastOp.cui)
                  \/ lastOp.name_status = "P"
               THEN lastOp.name_status
               ELSE StatusOf(pre.name2info, name, lastOp.cui))

\* status P overwrote the status N of a pair
C8_Witness ==
    /\ lastOp.op = "add_concept"
    /\ lastOp.name_status = "P"
    /\ \E name \in Range(lastOp.names) :
         /\ HasPair(pre.name2info, name, lastOp.cui)
         /\ StatusOf(pre.name2info, name, lastOp.cui) = "N"
         /\ StatusOf(name2info, name, lastOp.cui) = "P"

\* C9: add_concept called twice in a row with the same arguments leaves
\* cui2info, name2info, type_id2info and token_counts as one call does.
C9_AddConceptIdempotent ==
    (lastOp.op = "add_concept" /\ repeated)
    => /\ cui2info = pre.cui2info
       /\ name2info = pre.name2info
       /\ type_id2info = pre.type_id2info
       /\ token_counts = pre.token_counts

\* the tokens of the names of a names dict, one entry per occurrence
RECURSIVE TokensOf(_)
TokensOf(names) ==
    IF names = <<>> THEN <<>>
    ELSE NameDescriptor(Head(names)).tokens \o TokensOf(Tail(names))

Occurrences(seq, x) == Cardinality({i \in DOMAIN seq : seq[i] = x})

\* C9 (amended): the second of two add_concept calls with the same arguments
\* leaves cui2info, name2info and type_id2info as the first call left them;
\* token_counts is not left alone: the count of a token goes up by the number
\* of times the token occurs in the listed names, at every call.
C9_AddConceptIdempotentButTokenCounts ==
    (lastOp.op = "add_concept" /\ repeated)
    => /\ cui2info = pre.cui2info
       /\ name2info = pre.name2info
       /\ type_id2info = pre.type_id2info
       /\ DOMAIN token_counts = DOMAIN pre.token_counts
       /\ \A t \in DOMAIN token_counts :
            token_counts[t] =
                pre.token_counts[t] + Occurrences(TokensOf(lastOp.names), t)

\* a full build call with status P on an existing concept is repeated
C9_Witness ==
    /\ lastOp.op = "add_concept" /\ repeated
    /\ lastOp.names # <<>>
    /\ lastOp.name_status = "P"
    /\ \E a \in lastOp.args : a.full_build /\ a.type_ids # {}
    /\ \E t \in DOMAIN token_counts : token_counts[t] >= 3

\* C10: add_concept and add_names with an empty names map leave cui2info,
\* name2info, type_id2info, token_counts, the subname cache and the flags
\* is_dirty and has_changed_names as they were and raise nothing.
C10_EmptyNamesChangesNothing ==
    (lastOp.op \in {"add_concept", "add_names"} /\ lastOp.names = <<>>)
    => /\ raised = "none"
       /\ Store = pre

\* the call named a concept the store does not have and gave it type ids,
\* in a store that was not dirty
C10_Witness ==
    /\ lastOp.op = "add_concept" /\ lastOp.names = <<>>
    /\ lastOp.cui \notin DOMAIN cui2info
    /\ \E a \in lastOp.args : a.type_ids # {} /\ a.full_build
    /\ ~is_dirty

\* C11: has_subname(s) returns true exactly when s is in the subnames set of
\* at least one concept in cui2info, after any sequence of add_concept,
\* remove_names, filter_by_cui and reset_training calls.
C11_CacheAgreesWithScan ==
    lastOp.op = "has_subname" =>
        (has_subname_result(pre, lastOp.name)
            <=> \E cui \in DOMAIN pre.cui2info :
                    lastOp.name \in pre.cui2info[cui].subnames)

\* C12: after reset_training every concept has no context vectors,
\* count_train 0 and average_confidence 0 and every name has count_train 0,
\* while the concepts, the names, every concept's names, subnames, type_ids
\* and preferred_name and every name's per_cui_status are unchanged.
C12_ResetTrainingEffect ==
    lastOp.op = "reset_training" =>
        /\ DOMAIN cui2info = DOMAIN pre.cui2info
        /\ DOMAIN name2info = DOMAIN pre.name2info
        /\ \A cui \in DOMAIN cui2info :
              /\ cui2info[cui].context_vectors = NoVectors
              /\ cui2info[cui].count_train = 0
              /\ cui2info[cui].average_confidence = R(0)
              /\ cui2info[cui].names = pre.cui2info[cui].names
              /\ cui2info[cui].subnames = pre.cui2info[cui].subnames
              /\ cui2info[cui].type_ids = pre.cui2info[cui].type_ids
              /\ cui2info[cui].preferred_name = pre.cui2info[cui].preferred_name
        /\ \A name \in DOMAIN name2info :
              /\ name2info[name].count_train = 0
              /\ name2info[name].per_cui_status
                     = pre.name2info[name].per_cui_status

\* reset_training was called on a store with a trained concept and a
\* trained name
C12_Witness ==
    /\ lastOp.op = "reset_training"
    /\ \E cui \in DOMAIN pre.cui2info :
          /\ pre.cui2info[cui].count_train > 0
          /\ pre.cui2info[cui].context_vectors # NoVectors
          /\ pre.cui2info[cui].average_confidence # R(0)
    /\ \E name \in DOMAIN pre.name2info : pre.name2info[name].count_train > 0

\* a call of the linker in inference mode: Linker.__call__ with train off,
\* or CAT.get_entities (which switches train off first)
InferenceCall ==
    \/ lastOp.op = "linker" /\ ~lastOp.config.train
    \/ lastOp.op = "get_entities"

\* C13: in inference mode with a similarity_threshold_type that is neither
\* 'static' nor 'dynamic' the final entity list is empty, whatever the
\* candidates, similarities and threshold, and no error is raised.
C13_UnknownThresholdTypeFailsClosed ==
    (InferenceCall
        /\ lastOp.config.similarity_threshold_type \notin {"static", "dynamic"})
    => (doc.final_ents = <<>> /\ raised = "none")

\* a call of the linker, in training or in inference mode
LinkerCalled == lastOp.op \in {"linker", "get_entities"}

\* the elements of a list of entities
Entities(ents) == {ents[i] : i \in DOMAIN ents}

\* C14: after a linker call, in training or in inference mode, no token
\* belongs to two entities of the final list, and (when the call returned)
\* every accepted entity that is not in the final list shares a token with
\* an entity of the final list whose matched text is at least as long.
C14_FinalEntitiesDoNotOverlap ==
    LinkerCalled =>
        /\ \A i, j \in DOMAIN doc.final_ents :
              i # j => EntityTokens(doc.final_ents[i])
                           \cap EntityTokens(doc.final_ents[j]) = {}
        /\ raised = "none" =>
              \A out \in Entities(doc.all_ents) \ Entities(doc.final_ents) :
                 \E kept \in Entities(doc.final_ents) :
                    /\ EntityTokens(out) \cap EntityTokens(kept) # {}
                    /\ Len(EntityText(doc, kept)) >= Len(EntityText(doc, out))

\* a linker call accepted two mentions that share a token and kept the
\* longer one only
C14_Witness ==
    /\ LinkerCalled
    /\ raised = "none"
    /\ doc.final_ents # <<>>
    /\ \E out \in Entities(doc.all_ents) \ Entities(doc.final_ents) :
          \E kept \in Entities(doc.final_ents) :
             /\ EntityTokens(out) \cap EntityTokens(kept) # {}
             /\ Len(EntityText(doc, kept)) > Len(EntityText(doc, out))

\* a mention that is linked directly: it has a detected name of the store,
\* at least disamb_length_limit long, and exactly one candidate, which
\* passes the filter and whose status for the name needs no disambiguation
DirectLink(S, cfg, entity) ==
    /\ entity.detected_name # NoName
    /\ entity.detected_name \in DOMAIN S.name2info
    /\ Len(entity.detected_name) >= cfg.disamb_length_limit
    /\ Len(entity.link_candidates) = 1
    /\ entity.link_candidates[1] \in DOMAIN S.cui2info
    /\ check_filters(cfg.filters, entity.link_candidates[1])
    /\ StatusOrDefault(S.name2info[entity.detected_name].per_cui_status,
                       entity.link_candidates[1]) \notin DO_DISAMBUGATION

\* the mention is among the accepted ones, with this concept and similarity
AcceptedWith(entity, cui, context_similarity) ==
    [entity EXCEPT !.cui = cui, !.context_similarity = context_similarity]
        \in Entities(doc.all_ents)

\* the mention is not among the accepted ones
Rejected(entity) == \A e \in Entities(doc.all_ents) : e.id # entity.id

\* C15: in an inference call (that returns) with a static threshold, a
\* mention that is linked directly is, with always_calculate_similarity
\* off and a threshold of at most 1, accepted with its candidate and
\* context_similarity 1, whatever the concept's count_train and context
\* vectors; with always_calculate_similarity on and the concept's
\* count_train below train_count_threshold it gets similarity -1 and is
\* rejected by every threshold above -1.
C15_DirectLinkSimilarity ==
    (InferenceCall /\ raised = "none"
        /\ lastOp.config.similarity_threshold_type = "static")
    => \A i \in DOMAIN lastOp.doc.all_ents :
          LET entity == lastOp.doc.all_ents[i]
              cfg == lastOp.config
              cui == entity.link_candidates[1]
          IN DirectLink(pre, cfg, entity) =>
                /\ (~cfg.always_calculate_similarity
                        /\ RLeq(cfg.similarity_threshold, R(1)))
                   => AcceptedWith(entity, cui, R(1))
                /\ (cfg.always_calculate_similarity
                        /\ pre.cui2info[cui].count_train
                               < cfg.train_count_threshold)
                   => IF RLt(R(-1), cfg.similarity_threshold)
                      THEN Rejected(entity)
                      ELSE AcceptedWith(entity, cui, R(-1))

\* a direct link to a concept that was never trained was accepted with
\* similarity 1 under the threshold 1
C15_Witness ==
    /\ InferenceCall /\ raised = "none"
    /\ lastOp.config.similarity_threshold_type = "static"
    /\ lastOp.config.similarity_threshold = R(1)
    /\ ~lastOp.config.always_calculate_similarity
    /\ \E i \in DOMAIN lastOp.doc.all_ents :
          LET entity == lastOp.doc.all_ents[i]
          IN /\ DirectLink(pre, lastOp.config, entity)
             /\ pre.cui2info[entity.link_candidates[1]].count_train = 0
             /\ AcceptedWith(entity, entity.link_candidates[1], R(1))

\* C16: a positive train call on a non-empty mention increases the
\* concept's count_train by exactly 1 and, when the mention has a detected
\* name, that name's count_train by exactly 1, and leaves average_confidence
\* unchanged when calculate_dynamic_threshold is off; a negative train call
\* and a train call on an empty mention change no count_train; and no call
\* other than reset_training decreases the count_train of a concept.
C16_TrainCounts ==
    /\ lastOp.op = "train" =>
          LET cui == lastOp.cui
              entity == lastOp.doc.all_ents[lastOp.entity]
              name == entity.detected_name
              positive == ~lastOp.negative /\ EntityLen(entity) > 0
          IN /\ positive =>
                   /\ cui2info[cui].count_train
                          = pre.cui2info[cui].count_train + 1
                   /\ (name # NoName /\ name # <<>>) =>
                          name2info[name].count_train
                              = pre.name2info[name].count_train + 1
                   /\ ~lastOp.config.calculate_dynamic_threshold =>
                          cui2info[cui].average_confidence
                              = pre.cui2info[cui].average_confidence
             /\ ~positive =>
                   /\ \A c \in DOMAIN pre.cui2info :
                         cui2info[c].count_train = pre.cui2info[c].count_train
                   /\ \A n \in DOMAIN pre.name2info :
                         name2info[n].count_train
                             = pre.name2info[n].count_train
    /\ lastOp.op # "reset_training" =>
          \A c \in DOMAIN pre.cui2info :
             /\ c \in DOMAIN cui2info
             /\ cui2info[c].count_train >= pre.cui2info[c].count_train

\* a positive train call on a named, non-empty mention of a concept that
\* was trained before, with calculate_dynamic_threshold off
C16_Witness ==
    /\ lastOp.op = "train"
    /\ raised = "none"
    /\ ~lastOp.negative
    /\ ~lastOp.config.calculate_dynamic_threshold
    /\ EntityLen(lastOp.doc.all_ents[lastOp.entity]) > 0
    /\ lastOp.doc.all_ents[lastOp.entity].detected_name # NoName
    /\ pre.cui2info[lastOp.cui].count_train > 0
    /\ cui2info[lastOp.cui].count_train > 1

\* what training writes: every concept's context vectors (the reference and
\* the vectors behind it), count_train and average_confidence, and every
\* name's count_train
TrainedFields(S) ==
    [concepts |-> [cui \in DOMAIN S.cui2info |->
                      [context_vectors |-> S.cui2info[cui].context_vectors,
                       count_train |-> S.cui2info[cui].count_train,
                       average_confidence
                           |-> S.cui2info[cui].average_confidence]],
     vectors |-> S.vector_dicts,
     names |-> [name \in DOMAIN S.name2info |-> S.name2info[name].count_train]]

\* C17: a linker call in inference mode (train = false) leaves every
\* concept's context_vectors, count_train and average_confidence and every
\* name's count_train unchanged, for any document and any candidates.
C17_InferenceLeavesTrainingAlone ==
    (lastOp.op = "linker" /\ ~lastOp.config.train)
    => TrainedFields(Store) = TrainedFields(pre)

\* an inference call of the linker on a trained store computed similarities
\* and accepted a mention
C17_Witness ==
    /\ lastOp.op = "linker" /\ ~lastOp.config.train
    /\ raised = "none"
    /\ \E cui \in DOMAIN pre.cui2info :
          /\ pre.cui2info[cui].count_train > 0
          /\ pre.cui2info[cui].context_vectors # NoVectors
    /\ \E e \in Entities(doc.final_ents) :
          /\ Len(e.link_candidates) > 1
          /\ e.context_similarity # R(1)

\* C18: whenever CAT.get_entities returns, config.components.linking.train
\* is false and the document was processed in inference mode: no concept's
\* count_train or context_vectors and no name's count_train changed during
\* the call, also when train was true before the call.
C18_GetEntitiesNeverTrains ==
    lastOp.op = "get_entities" =>
        /\ ~config.train
        /\ \A cui \in DOMAIN pre.cui2info :
              /\ cui \in DOMAIN cui2info
              /\ cui2info[cui].count_train = pre.cui2info[cui].count_train
              /\ cui2info[cui].context_vectors
                     = pre.cui2info[cui].context_vectors
        /\ vector_dicts = pre.vector_dicts
        /\ \A name \in DOMAIN pre.name2info :
              /\ name \in DOMAIN name2info
              /\ name2info[name].count_train = pre.name2info[name].count_train

\* get_entities returned entities of a document with a mention that a
\* training call would have trained on, and train was true before the call
C18_Witness ==
    /\ lastOp.op = "get_entities"
    /\ raised = "none"
    /\ lastOp.config.train
    /\ doc.final_ents # <<>>
    /\ \E i \in DOMAIN lastOp.doc.all_ents :
          /\ DirectLink(pre, lastOp.config, lastOp.doc.all_ents[i])
          /\ EntityLen(lastOp.doc.all_ents[i]) > 0

\* C19: for every candidate list, name and setting of prefer_primary_name
\* and prefer_frequent_concepts (including both set to 0), the similarity
\* that disambiguate returns for the chosen candidate is at most 0.99.
C19_SimilarityAtMostCap ==
    (lastOp.op = "disambiguate" /\ raised = "none" /\ lastOp.chosen # "")
    => RLeq(lastOp.similarity, SimilarityCap)

\* the chosen candidate got the primary name boost: prefer_primary_name is
\* positive, the similarity computed for the candidate is positive and the
\* name is primary for it
PrimaryBoosted ==
    LET cfg == lastOp.config
        entity == lastOp.doc.all_ents[lastOp.entity]
    IN /\ RLt(R(0), cfg.prefer_primary_name)
       /\ RLt(R(0), similarity(pre, cfg, lastOp.chosen, entity, lastOp.doc))
       /\ lastOp.name \in DOMAIN pre.name2info
       /\ StatusOrDefault(pre.name2info[lastOp.name].per_cui_status,
                          lastOp.chosen) \in PRIMARY_STATUS

\* C19, amended: the similarity that disambiguate returns for the chosen
\* candidate is at most 0.99 when prefer_frequent_concepts is positive or
\* the candidate got the primary name boost; otherwise it is the similarity
\* computed for the candidate, without a cap.
C19_BoostedSimilarityAtMostCap ==
    (lastOp.op = "disambiguate" /\ raised = "none" /\ lastOp.chosen # "")
    => IF RLt(R(0), lastOp.config.prefer_frequent_concepts) \/ PrimaryBoosted
       THEN RLeq(lastOp.similarity, SimilarityCap)
       ELSE lastOp.similarity
                = similarity(pre, lastOp.config, lastOp.chosen,
                             lastOp.doc.all_ents[lastOp.entity], lastOp.doc)

\* disambiguate chose among two candidates one whose computed similarity is
\* 1 and returned it with the similarity cut to 0.99
C19_Witness ==
    /\ lastOp.op = "disambiguate"
    /\ raised = "none"
    /\ Len(lastOp.doc.all_ents[lastOp.entity].link_candidates) = 2
    /\ lastOp.chosen # ""
    /\ similarity(pre, lastOp.config, lastOp.chosen,
                  lastOp.doc.all_ents[lastOp.entity], lastOp.doc) = R(1)
    /\ lastOp.similarity = SimilarityCap

\* the value at a path of a config object ("missing" when there is none)
RECURSIVE GetPath(_, _)
GetPath(m, path) ==
    IF path = <<>> THEN m
    ELSE IF m.kind # "model" THEN "missing"
    ELSE IF Head(path) \notin DOMAIN m.values THEN "missing"
    ELSE GetPath(m.values[Head(path)], Tail(path))

\* the paths of the values of a config object that are no sub-configs
RECURSIVE ValuePaths(_, _)
ValuePaths(m, prefix) ==
    UNION {IF m.values[k].kind = "model"
           THEN ValuePaths(m.values[k], Append(prefix, k))
           ELSE {Append(prefix, k)} : k \in DOMAIN m.values}

\* the values a partial dump names: for each the path, the value and the
\* class of the config object that is to hold it
RECURSIVE Named(_, _, _)
Named(cur, items, prefix) ==
    IF items = <<>> THEN {}
    ELSE LET k == Head(items).k
             v == Head(items).v
         IN Named(cur, Tail(items), prefix)
            \cup (IF k \in DOMAIN cur.values /\ cur.values[k].kind = "model"
                     /\ v.kind = "dict"
                  THEN Named(cur.values[k], v.items, Append(prefix, k))
                  ELSE {[path |-> Append(prefix, k), k |-> k, v |-> v,
                         cls |-> cur.cls]})

\* a non-dict for a sub-config, a value of the wrong type for a field, or a
\* new key in a section that does not allow extra keys
Incorrect(e) ==
    IF e.k \in DOMAIN FieldTypes(e.cls)
    THEN e.v.kind # (IF FieldTypes(e.cls)[e.k] = "model" THEN "dict"
                     ELSE FieldTypes(e.cls)[e.k])
    ELSE ~AllowsExtra(e.cls)

\* C20: merge_config(other) overwrites the values named in the partial dump
\* other and leaves every value not named in it unchanged, and it raises
\* IncorrectConfigValues when other gives a non-dict for a sub-config, a
\* value of the wrong type for a field, or a new key in a section that does
\* not allow extra keys.
C20_MergeConfig ==
    lastOp.op = "merge_config" =>
        LET named == Named(lastOp.config, lastOp.other.items, <<>>)
        IN /\ (\E e \in named : Incorrect(e))
              => raised = "IncorrectConfigValues"
           /\ raised = "none" =>
                 /\ \A e \in named : GetPath(config, e.path) = e.v
                 /\ \A path \in ValuePaths(lastOp.config, <<>>)
                                    \ {e.path : e \in named} :
                       GetPath(config, path) = GetPath(lastOp.config, path)

\* C21: with calculate_dynamic_threshold on, a positive train call sets the
\* concept's average_confidence to (old_avg * old_count + sim) /
\* (old_count + 1), where old_count is the concept's count_train before the
\* call and sim is the similarity computed after the vector update; so the
\* first positive update of an untrained concept sets it to sim itself.
C21_RunningMean ==
    (/\ lastOp.op = "train"
     /\ raised = "none"
     /\ ~lastOp.negative
     /\ lastOp.config.calculate_dynamic_threshold
     /\ EntityLen(lastOp.doc.all_ents[lastOp.entity]) > 0)
    => LET cui == lastOp.cui
           sim == similarity(Store, lastOp.config, cui,
                             lastOp.doc.all_ents[lastOp.entity], lastOp.doc)
       IN cui2info[cui].average_confidence
              = get_updated_average_confidence(
                    pre.cui2info[cui].average_confidence,
                    pre.cui2info[cui].count_train, sim)

\* the new vectors of the last train call
NewVectors ==
    get_context_vectors(lastOp.config, lastOp.doc,
                        lastOp.doc.all_ents[lastOp.entity],
                        NewName(pre, lastOp.cui, lastOp.chance))

Negation(vectors) == [ct \in DOMAIN vectors |-> RNeg(vectors[ct])]

\* the last call was a train call that went past the empty mention check
Trained(negative) ==
    /\ lastOp.op = "train"
    /\ raised = "none"
    /\ lastOp.negative = negative
    /\ EntityLen(lastOp.doc.all_ents[lastOp.entity]) > 0

NegativeSampled ==
    lastOp.op = "train_using_negative_sampling" /\ raised = "none"

\* C22: when a negative update (train with negative = true,
\* train_using_negative_sampling, or the devaluation of a sibling concept)
\* reaches a concept that has no stored context vectors yet, the vector stored
\* for each window label is the negation of the new vector; only a positive
\* update stores the new vector as-is.
C22_NegativeSeedIsNegated ==
    /\ (Trained(TRUE) /\ HasNoVectors(pre, lastOp.cui))
       => VectorsOf(Store, cui2info[lastOp.cui]) = Negation(NewVectors)
    /\ (Trained(FALSE) /\ HasNoVectors(pre, lastOp.cui))
       => VectorsOf(Store, cui2info[lastOp.cui]) = NewVectors
    /\ (NegativeSampled /\ HasNoVectors(pre, lastOp.cui))
       => VectorsOf(Store, cui2info[lastOp.cui])
              = Negation(lastOp.chance.negative_sample)
    /\ (Trained(FALSE) /\ lastOp.config.devalue_linked_concepts)
       => \A other \in OtherCuis(pre, lastOp.cui) :
             HasNoVectors(pre, other)
             => VectorsOf(Store, cui2info[other]) = Negation(NewVectors)

\* C23: in every state reached by any sequence of train,
\* train_using_negative_sampling and devaluation updates, a concept whose
\* context_vectors is set has exactly the window labels of
\* context_vector_sizes as its keys (also when the first training context had
\* no in-vocabulary token for some window), and a label already present is
\* never removed by these updates.
C23_VectorKeysAreWindowLabels ==
    /\ \A cui \in DOMAIN cui2info :
          cui2info[cui].context_vectors # NoVectors
          => DOMAIN VectorsOf(Store, cui2info[cui])
                 = DOMAIN config.context_vector_sizes
    /\ \A cui \in DOMAIN pre.cui2info :
          /\ cui \in DOMAIN cui2info
          /\ DOMAIN VectorsOf(pre, pre.cui2info[cui])
                 \subseteq DOMAIN VectorsOf(Store, cui2info[cui])

\* C24: train_using_negative_sampling (and so a training-mode linker call
\* that triggers it) on a vocabulary whose negative-sampling table has not
\* been built builds the table on first use and completes without raising.
C24_NegativeSamplingBuildsTable ==
    /\ (/\ lastOp.op = "train_using_negative_sampling"
        /\ pre.vocab.unigram_table = {})
       => /\ raised = "none"
          /\ vocab.unigram_table # {}
    /\ (/\ lastOp.op = "linker"
        /\ lastOp.config.train
        /\ lastOp.chance.add_negative
        /\ pre.vocab.unigram_table = {})
       => raised = "none"

\* the last call disambiguated a mention that has candidates and no
\* detected name
UnnamedDisambiguation ==
    /\ lastOp.op = "disambiguate"
    /\ lastOp.doc.all_ents[lastOp.entity].detected_name = NoName
    /\ lastOp.doc.all_ents[lastOp.entity].link_candidates # <<>>

\* C25: in inference mode, for a mention that has link candidates but no
\* detected name, disambiguation completes without error and selects the
\* candidate with the highest raw similarity with no primary-name boost
\* applied, also when prefer_primary_name is above 0 and some candidate has
\* similarity above 0.
C25_UnnamedMentionIsRankedBySimilarity ==
    UnnamedDisambiguation
    => /\ raised = "none"
       /\ LET entity == lastOp.doc.all_ents[lastOp.entity]
              unboosted ==
                  disambiguate(pre,
                               [lastOp.config EXCEPT
                                   !.prefer_primary_name = R(0)],
                               entity.link_candidates, entity, lastOp.name,
                               lastOp.doc)
          IN /\ lastOp.chosen = unboosted.cui
             /\ lastOp.similarity = unboosted.similarity

\* the mention may be trained on for concept c in a training-mode call
MayTrain(S, cfg, entity, c) ==
    LET name == entity.detected_name
        cuis == entity.link_candidates
    IN /\ name # NoName
       /\ Len(name) >= cfg.disamb_length_limit
       /\ name \in DOMAIN S.name2info
       /\ \E k \in DOMAIN cuis : cuis[k] = c
       /\ LET status == StatusOrDefault(S.name2info[name].per_cui_status, c)
          IN \/ Len(cuis) = 1 /\ status # MUST_DISAMBIGATE
             \/ Len(cuis) > 1 /\ status \in PRIMARY_STATUS

TrainingCall == lastOp.op = "linker" /\ lastOp.config.train

\* C26: in a training-mode linker call, a positive update is applied to
\* concept c for a mention only if the mention has a detected name of length
\* at least disamb_length_limit that is in name2info and either c is the
\* mention's only candidate and its status for the name is not N, or the
\* mention has several candidates and c's status for the name is P or PD; a
\* mention that meets neither case changes no trained field of the store and
\* is absent from the document's entity lists after the call, and every
\* mention that is kept has context_similarity 1.
C26_TrainingCallTrainsOnlyWhereAllowed ==
    TrainingCall =>
        LET ents == lastOp.doc.all_ents
        IN /\ \A c \in DOMAIN pre.cui2info :
                 cui2info[c].count_train # pre.cui2info[c].count_train
                 => \E i \in DOMAIN ents :
                        MayTrain(pre, lastOp.config, ents[i], c)
           /\ (\A i \in DOMAIN ents, c \in DOMAIN pre.cui2info :
                   ~MayTrain(pre, lastOp.config, ents[i], c))
              => TrainedFields(Store) = TrainedFields(pre)
           /\ raised = "none" =>
                 \A e \in Entities(doc.all_ents) \cup Entities(doc.final_ents) :
                    /\ MayTrain(pre, lastOp.config, e, e.cui)
                    /\ e.context_similarity = R(1)

\* a training-mode call on a document with a mention that was trained on and
\* kept and a mention with candidates that was passed over
C26_Witness ==
    /\ TrainingCall
    /\ raised = "none"
    /\ \E e \in Entities(doc.final_ents) :
          cui2info[e.cui].count_train > pre.cui2info[e.cui].count_train
    /\ \E i \in DOMAIN lastOp.doc.all_ents :
          LET entity == lastOp.doc.all_ents[i]
          IN /\ entity.link_candidates # <<>>
             /\ \A c \in DOMAIN pre.cui2info :
                   ~MayTrain(pre, lastOp.config, entity, c)
             /\ \A e \in Entities(doc.all_ents) : e.id # entity.id

\* a negative train call with names, on a non-empty mention, has set every
\* listed pair of the concept to PD when it was P and to N when it was A, and
\* has left PD and N as they were
NegativeTrainTightens ==
    (/\ lastOp.op = "train"
     /\ lastOp.negative
     /\ raised = "none"
     /\ EntityLen(lastOp.doc.all_ents[lastOp.entity]) > 0)
    => \A k \in DOMAIN lastOp.names :
          HasPair(pre.name2info, lastOp.names[k], lastOp.cui)
          => /\ HasPair(name2info, lastOp.names[k], lastOp.cui)
             /\ LET old == StatusOf(pre.name2info, lastOp.names[k], lastOp.cui)
                    new == StatusOf(name2info, lastOp.names[k], lastOp.cui)
                IN new = IF old = "P" THEN "PD"
                         ELSE IF old = "A" THEN "N" ELSE old

\* the pair is PD or N through the negative train call that was the last call
TightenedByTrain(name, cui) ==
    /\ lastOp.op = "train"
    /\ lastOp.negative
    /\ lastOp.cui = cui
    /\ \E k \in DOMAIN lastOp.names : lastOp.names[k] = name
    /\ HasPair(name2info, name, cui)
    /\ StatusOf(name2info, name, cui) \in {"PD", "N"}

\* C27: a negative train call with a name list changes the status of each
\* listed (name, cui) pair from P to PD and from A to N and leaves PD and N as
\* they are, and the tightening is permanent: once a pair's status is PD or N
\* through such a call, no later add_concept, remove_names or train call sets
\* it back to P or A while the pair exists.
C27_TrainTighteningIsPermanent ==
    [][/\ NegativeTrainTightens'
       /\ \A name \in NAMES, cui \in CUIS :
             (TightenedByTrain(name, cui) /\ HasPair(name2info', name, cui))
             => StatusOf(name2info', name, cui) \in {"PD", "N"}]_vars

\* the last call was add_concept with the status P for the pair
PrimaryAdded(name, cui) ==
    /\ lastOp.op = "add_concept"
    /\ lastOp.cui = cui
    /\ lastOp.name_status = "P"
    /\ \E k \in DOMAIN lastOp.names : lastOp.names[k] = name

\* C27, amended: the negative train call tightens as stated, and a pair whose
\* status is PD or N keeps a status of PD or N under every later call as long
\* as the pair exists, except that add_concept with the status P for the pair
\* sets it back to P.
C27_TightenedUntilPrimaryAdded ==
    [][/\ NegativeTrainTightens'
       /\ \A name \in NAMES, cui \in CUIS :
             (/\ HasPair(name2info, name, cui)
              /\ StatusOf(name2info, name, cui) \in {"PD", "N"}
              /\ HasPair(name2info', name, cui))
             => \/ StatusOf(name2info', name, cui) \in {"PD", "N"}
                \/ /\ PrimaryAdded(name, cui)'
                   /\ StatusOf(name2info', name, cui) = "P"]_vars

\* two calls: a negative train call made the pair ("a~b", "c1") PD while
\* "c2" kept the name (so no remove_names call did it), then add_concept
\* with a status other than P named the pair and it stayed PD
C27_Witness ==
    /\ steps = 2
    /\ lastOp.op = "add_concept"
    /\ lastOp.cui = "c1"
    /\ lastOp.name_status # "P"
    /\ \E k \in DOMAIN lastOp.names : lastOp.names[k] = name_a_b
    /\ HasPair(pre.name2info, name_a_b, "c2")
    /\ HasPair(pre.name2info, name_a_b, "c1")
    /\ StatusOf(pre.name2info, name_a_b, "c1") = "PD"
    /\ StatusOf(name2info, name_a_b, "c1") = "PD"

\* C28: remove_names(cui, names) leaves the per_cui_status of a listed name
\* unchanged when cui has no status entry under that name: removing an
\* association that does not exist changes no other concept's status for the
\* name.
C28_RemovingAbsentPairChangesNothing ==
    lastOp.op = "remove_names"
    => \A name \in lastOp.rm_names :
          (/\ name \in DOMAIN pre.name2info
           /\ ~HasPair(pre.name2info, name, lastOp.cui))
          => /\ name \in DOMAIN name2info
             /\ name2info[name].per_cui_status
                  = pre.name2info[name].per_cui_status

\* the last call was a negative update of the concept lastOp.cui
NegativeUpdate ==
    \/ lastOp.op = "train_using_negative_sampling"
    \/ lastOp.op = "train" /\ lastOp.negative

\* every concept other than the one of the last call has the context vectors
\* it had before the call
OtherVectorsKept ==
    \A other \in (DOMAIN pre.cui2info) \ {lastOp.cui} :
        /\ other \in DOMAIN cui2info
        /\ VectorsOf(Store, cui2info[other])
             = VectorsOf(pre, pre.cui2info[other])

\* no two concepts refer to one dict object
NoSharedVectors ==
    \A c \in DOMAIN cui2info, other \in DOMAIN cui2info :
        (c # other /\ cui2info[c].context_vectors # NoVectors)
        => cui2info[c].context_vectors # cui2info[other].context_vectors

\* C29: train_using_negative_sampling(c) and train(c, negative = true) change
\* the context vectors of concept c only: every other concept's stored context
\* vectors are the same before and after the call, for any history of earlier
\* train calls, including first-time training and training with
\* devalue_linked_concepts on (no two concepts ever share one context_vectors
\* mapping).
C29_NegativeUpdateChangesOnlyItsConcept ==
    /\ NegativeUpdate => OtherVectorsKept
    /\ NoSharedVectors

\* the indices of the words of the vocabulary whose vector is set
VectorIndices(V) ==
    {V.vocab[i].index : i \in {j \in DOMAIN V.vocab : ~V.vocab[j].vector.isNone}}

\* C30: after any sequence of add_word, inc_or_add, add_vec,
\* remove_all_vectors and remove_words_below_cnt calls on a Vocab, every word
\* w in the vocabulary satisfies index2word[index of w] = w, no two words
\* share an index, and vec_index2word holds exactly the indices of the words
\* whose vector is set.
C30_VocabIndexIsConsistent ==
    /\ \A i \in DOMAIN vocab.vocab :
          /\ vocab.vocab[i].index \in DOMAIN vocab.index2word
          /\ vocab.index2word[vocab.vocab[i].index] = vocab.vocab[i].word
    /\ \A i \in DOMAIN vocab.vocab, j \in DOMAIN vocab.vocab :
          i # j => vocab.vocab[i].index # vocab.vocab[j].index
    /\ DOMAIN vocab.vec_index2word = VectorIndices(vocab)

\* remove_words_below_cnt removed the first of two words, so that the second
\* word, which has a vector, moved from index 1 to index 0, and a new word was
\* added after it
C30_Witness ==
    /\ lastOp.op = "add_word"
    /\ Len(vocab.vocab) = 2
    /\ Len(pre.vocab.vocab) = 1
    /\ pre.vocab.vocab[1].word = <<"b">>
    /\ ~pre.vocab.vocab[1].vector.isNone
    /\ pre.vocab.vocab[1].index = 0
    /\ vocab.vocab[2].word = <<"a">>
    /\ vocab.vocab[2].index = 1
    /\ ~vocab.vocab[2].vector.isNone
    /\ steps = MaxVocabSteps

====
